---- MODULE Spec2Model ----
(***************************************************************************)
(* A model of the Task Assistant API (sumit8239/gpt-agent): the session    *)
(* store (chatSession.js), the conversation controller (processMessage),   *)
(* the task extractor / questionnaire classifier and the response          *)
(* assembler (ensureTasksInTasksArray) of src/index.js, and the task       *)
(* editor (handleTaskEditing / generateTasks) of the later revision of the *)
(* controller kept in src/unnamed/part_003.                                *)
(*                                                                         *)
(* TEXT.  A JavaScript string is modelled as a sequence of tokens.  A      *)
(* token is a word, a punctuation mark, the newline NL, the three-space    *)
(* indent IND, or a whole fixed sentence of the program (a catalog         *)
(* description, a canned reply).  The string a sequence stands for is its  *)
(* tokens joined by one space, with no space before a punctuation mark     *)
(* (Glue) and none around NL / IND.  Regular expressions of the source are *)
(* matched on the tokens.  The empty sequence stands for "", and also for  *)
(* null / undefined wherever the code only tests truthiness.               *)
(***************************************************************************)
EXTENDS Integers, Sequences, FiniteSets, TLC

NL  == "\n"
IND == "   "

IsSpace(t) == t \in {NL, IND}

Glue == {".", ":", "?", "!", ")", ","}

NumTok == {"0", "1", "2", "3", "4", "5"}

IsNum(t) == t \in NumTok

\* toLowerCase() of the capitalised words of the vocabulary (all other tokens
\* are already lower case, or are fixed sentences no pattern looks into).
LowerMap ==
  [ What |-> "what", How |-> "how", Which |-> "which", Can |-> "can",
    Could |-> "could", Do |-> "do", Tell |-> "tell", Create |-> "create",
    Build |-> "build", Develop |-> "develop", Implement |-> "implement",
    Improve |-> "improve", Set |-> "set", Up |-> "up", Fix |-> "fix",
    Add |-> "add", Update |-> "update", Task |-> "task", Title |-> "title",
    Time |-> "time", Estimate |-> "estimate", Estimated |-> "estimated",
    Duration |-> "duration", Takes |-> "takes", Describe |-> "describe",
    Audit |-> "audit", Define |-> "define", Streamline |-> "streamline",
    Establish |-> "establish", Error |-> "error", Untitled |-> "untitled",
    Updated |-> "updated", Review |-> "review", Website |-> "website",
    Plan |-> "plan", Write |-> "write", Your |-> "your", You |-> "you",
    I |-> "i", SEO |-> "seo", Edit |-> "edit", Thanks |-> "thanks" ]

Lower(t) == IF t \in DOMAIN LowerMap THEN LowerMap[t] ELSE t

TokLen(t) == Len(t)

NeedsSpace(a, b) == ~IsSpace(a) /\ ~IsSpace(b) /\ b \notin Glue

\* String.prototype.length of the string the tokens stand for
RECURSIVE StrLen(_)
StrLen(s) ==
  IF s = <<>> THEN 0
  ELSE StrLen(SubSeq(s, 1, Len(s) - 1)) + TokLen(s[Len(s)])
         + (IF Len(s) > 1 /\ NeedsSpace(s[Len(s) - 1], s[Len(s)]) THEN 1 ELSE 0)

\* String.prototype.trim()
RECURSIVE TrimLeft(_)
TrimLeft(s) == IF s # <<>> /\ IsSpace(Head(s)) THEN TrimLeft(Tail(s)) ELSE s

RECURSIVE TrimRight(_)
TrimRight(s) ==
  IF s # <<>> /\ IsSpace(s[Len(s)]) THEN TrimRight(SubSeq(s, 1, Len(s) - 1)) ELSE s

Trim(s) == TrimRight(TrimLeft(s))

\* the least element of a set of indices, 0 for the empty set
MinOr0(S) == IF S = {} THEN 0 ELSE CHOOSE i \in S : \A k \in S : i <= k

\* the index of the first token after position i that is not white space, or 0
NextNonSpace(s, i) == MinOr0({j \in (i + 1)..Len(s) : ~IsSpace(s[j])})

\* the tokens pat occur in s, adjacent and in order, starting at i
OccursAt(s, pat, i) ==
  /\ i + Len(pat) - 1 <= Len(s)
  /\ \A k \in 1..Len(pat) : s[i + k - 1] = pat[k]

\* String.prototype.includes(pat), on the tokens as written
Includes(s, pat) == \E i \in 1..Len(s) : OccursAt(s, pat, i)

\* String.prototype.toLowerCase()
LowerStr(s) == [i \in 1..Len(s) |-> Lower(s[i])]

\* s.replace(pat, ''): the first occurrence of pat removed, s itself when there is none
IndexOf(s, pat) == MinOr0({i \in 1..Len(s) : OccursAt(s, pat, i)})

Without(s, i, n) == SubSeq(s, 1, i - 1) \o SubSeq(s, i + n, Len(s))

RemoveFirst(s, pat) ==
  IF pat = <<>> \/ IndexOf(s, pat) = 0 THEN s
  ELSE Without(s, IndexOf(s, pat), Len(pat))

\* the longest run of tokens from position i on that holds no token of stop
RECURSIVE RunFrom(_, _, _)
RunFrom(s, i, stop) ==
  IF i < 1 \/ i > Len(s) \/ s[i] \in stop THEN <<>>
  ELSE <<s[i]>> \o RunFrom(s, i + 1, stop)

\* String.prototype.split('\n')
RECURSIVE SplitLines(_)
SplitLines(s) ==
  IF Len(RunFrom(s, 1, {NL})) = Len(s) THEN <<s>>
  ELSE <<RunFrom(s, 1, {NL})>>
       \o SplitLines(SubSeq(s, Len(RunFrom(s, 1, {NL})) + 2, Len(s)))

(***************************************************************************)
(* The Fallback Task Catalog: getFallbackTasksByType.  rev = FALSE is the  *)
(* catalog of src/index.js (tasks without id, written id = 0); rev = TRUE  *)
(* is the one of the later revision, whose addTaskId numbers the tasks     *)
(* 1, 2, 3 and whose education / personal texts differ in one entry each.  *)
(* A description is one token: the sentence as the source writes it.       *)
(***************************************************************************)

DescWebsite1 ==
  "Conduct a complete inventory of all website pages and content. Identify outdated information, broken links, and opportunities for improvement. Create a spreadsheet to track each page, its purpose, and status."

DescWebsite2 ==
  "Test your website's navigation flow and identify points of friction. Simplify menus, improve page loading speed, and ensure mobile responsiveness. Consider implementing user feedback mechanisms."

DescWebsite3 ==
  "Develop a calendar for regular content updates and new publications. Plan topics that align with user interests and business goals. Establish a workflow for content creation, review, and publication."

DescBusiness1 ==
  "Identify 3-5 critical metrics that directly reflect business success. Create a tracking system to monitor these metrics regularly. Define baseline values and set realistic improvement targets."

DescBusiness2 ==
  "Map out current workflows and identify bottlenecks. Remove unnecessary steps and automate repetitive tasks where possible. Document improved processes and train team members on changes."

DescBusiness3 ==
  "Create a mechanism to regularly collect customer insights. Design short, focused surveys or implement review requests. Establish a process to analyze feedback and take action on common themes."

DescEducation1 ==
  "Break down the subject into manageable topics and subtopics. Sequence them in a logical order with time estimates for each. Identify resources needed for each topic and set completion milestones."

DescEducation2 ==
  "Convert passive study materials into active learning activities. Create practice questions, flashcards, or teaching materials. Schedule regular self-assessment to test understanding."

DescEducation3 ==
  "Gather and organize all learning materials in one accessible location. Categorize resources by topic and format. Create a system to track which resources have been completed."

DescPersonal1 ==
  "Select and set up a task management tool that fits your workflow. Define categories for different areas of your life and establish a regular review process. Implement time blocking for important activities."

DescPersonal2 ==
  "Design morning and evening routines that support your goals. Start with 2-3 keystone habits and gradually expand. Track adherence to routines for at least 30 days to build consistency."

DescPersonal3 ==
  "Define measurable indicators for your personal goals. Create a simple dashboard or journal system to monitor these regularly. Schedule weekly reviews to assess progress and make adjustments."

DescGeneral1 ==
  "Identify specific, measurable goals related to your project or area of focus. Break larger goals into smaller milestones with deadlines. Document success criteria for each objective."

DescGeneral2 ==
  "List all required steps to achieve your objectives in sequential order. Identify resources, tools, and information needed for each step. Assign priorities and estimate completion times."

DescGeneral3 ==
  "Set up a method to monitor progress on your action items. Choose a tool (digital or physical) that fits your workflow. Establish a regular review schedule to assess progress and make adjustments."

DescEducation1Rev ==
  "Develop a comprehensive learning schedule with clear milestones. Break down complex topics into manageable units. Set specific goals for each study session and track progress regularly."

DescPersonal3Rev ==
  "Choose and implement a system to track your progress towards goals. Set up regular review periods to assess progress and make adjustments. Create visual representations of your progress to stay motivated."

CatalogWebsite(rev) ==
  << [title |-> <<"Audit", "Website", "Content", "and", "Structure">>,
      description |-> <<DescWebsite1>>,
      timeEstimate |-> <<"3", "hours">>, id |-> IF rev THEN 1 ELSE 0],
     [title |-> <<"Improve", "Website", "User", "Experience">>,
      description |-> <<DescWebsite2>>,
      timeEstimate |-> <<"4", "hours">>, id |-> IF rev THEN 2 ELSE 0],
     [title |-> <<"Create", "a", "Content", "Update", "Schedule">>,
      description |-> <<DescWebsite3>>,
      timeEstimate |-> <<"2", "hours">>, id |-> IF rev THEN 3 ELSE 0] >>

CatalogBusiness(rev) ==
  << [title |-> <<"Define", "Key", "Performance", "Indicators">>,
      description |-> <<DescBusiness1>>,
      timeEstimate |-> <<"2", "hours">>, id |-> IF rev THEN 1 ELSE 0],
     [title |-> <<"Streamline", "Business", "Processes">>,
      description |-> <<DescBusiness2>>,
      timeEstimate |-> <<"4", "hours">>, id |-> IF rev THEN 2 ELSE 0],
     [title |-> <<"Develop", "Customer", "Feedback", "System">>,
      description |-> <<DescBusiness3>>,
      timeEstimate |-> <<"3", "hours">>, id |-> IF rev THEN 3 ELSE 0] >>

CatalogEducation(rev) ==
  << [title |-> <<"Create", "a", "Structured", "Learning", "Plan">>,
      description |-> <<IF rev THEN DescEducation1Rev ELSE DescEducation1>>,
      timeEstimate |-> <<"2", "hours">>, id |-> IF rev THEN 1 ELSE 0],
     [title |-> <<"Implement", "Active", "Learning", "Techniques">>,
      description |-> <<DescEducation2>>,
      timeEstimate |-> <<"3", "hours">>, id |-> IF rev THEN 2 ELSE 0],
     [title |-> <<"Build", "a", "Comprehensive", "Resource", "Library">>,
      description |-> <<DescEducation3>>,
      timeEstimate |-> <<"2", "hours">>, id |-> IF rev THEN 3 ELSE 0] >>

CatalogPersonal(rev) ==
  << [title |-> <<"Create", "a", "Productivity", "System">>,
      description |-> <<DescPersonal1>>,
      timeEstimate |-> <<"2", "hours">>, id |-> IF rev THEN 1 ELSE 0],
     [title |-> <<"Establish", "Daily", "Routines">>,
      description |-> <<DescPersonal2>>,
      timeEstimate |-> <<"1", "hour">>, id |-> IF rev THEN 2 ELSE 0],
     [title |-> <<"Set", "Up", "Progress", "Tracking">>,
      description |-> <<IF rev THEN DescPersonal3Rev ELSE DescPersonal3>>,
      timeEstimate |-> <<"2", "hours">>, id |-> IF rev THEN 3 ELSE 0] >>

CatalogGeneral(rev) ==
  << [title |-> <<"Define", "Clear", "Objectives">>,
      description |-> <<DescGeneral1>>,
      timeEstimate |-> <<"2", "hours">>, id |-> IF rev THEN 1 ELSE 0],
     [title |-> <<"Create", "an", "Action", "Plan">>,
      description |-> <<DescGeneral2>>,
      timeEstimate |-> <<"3", "hours">>, id |-> IF rev THEN 2 ELSE 0],
     [title |-> <<"Implement", "a", "Tracking", "System">>,
      description |-> <<DescGeneral3>>,
      timeEstimate |-> <<"2", "hours">>, id |-> IF rev THEN 3 ELSE 0] >>

\* Capitalised words of the vocabulary whose lower-case form no pattern needs.
CapWords ==
  { "Action", "Active", "Business", "Clear", "Comprehensive", "Content",
    "Customer", "Daily", "Experience", "Feedback", "Indicators", "Key",
    "Learning", "Library", "Objectives", "Performance", "Processes",
    "Productivity", "Progress", "Resource", "Routines", "Schedule",
    "Structure", "Structured", "System", "Techniques", "Tracking", "User",
    "Here", "Since", "This", "Search", "No", "Let", "Please", "X" }

CatalogSentences ==
  { DescWebsite1, DescWebsite2, DescWebsite3, DescBusiness1, DescBusiness2,
    DescBusiness3, DescEducation1, DescEducation2, DescEducation3,
    DescPersonal1, DescPersonal2, DescPersonal3, DescGeneral1, DescGeneral2,
    DescGeneral3, DescEducation1Rev, DescPersonal3Rev }

(***************************************************************************)
(* The fixed texts of the program, and the sentences the model and the     *)
(* user are given to say.  Each is one token.                              *)
(***************************************************************************)
ReplyLead ==
  "Before I can provide specific tasks, I need to understand more about your situation:"

ReplyTail ==
  "Once you provide this information, I'll be able to suggest specific, tailored tasks for you."

ReplyMoved ==
  "I've generated the following tasks based on our conversation. Would you like me to explain any of them in more detail?"

ReplyPrepared == "Here are the tasks I've prepared for you."

ReplyUpdated ==
  "I've updated the tasks based on your feedback. Do these align better with what you were looking for?"

ReplyTrouble ==
  "I had trouble updating the tasks. Would you like to give me more specific guidance on what changes you'd like to see?"

ReplyGenerated ==
  "Here are some tasks based on our conversation. Would you like to make any adjustments to these tasks?"

ReplySuggested ==
  "Here are some suggested tasks. Would you like me to adjust these based on any additional information?"

ReplySearchTrouble ==
  "I'm having trouble accessing search results right now. Let me help based on what I already know."

ErrorDescription == "Please try again with a more specific request."

NoDescription == "No description provided"

SystemPrompt == "You are an AI assistant specializing in task creation for any domain."

SearchAnswer == "No search results found. Let me continue with what I already know."

\* three descriptions a model writes for a task
TextCrawl == "Run a crawl of the whole site and list every broken link in a sheet."

TextMeta == "Pick five pages and rewrite their meta descriptions for search."

TextSpeed == "Compare the page load time before and after compressing the images."

\* the fixed texts of the later revision of index.js (src/unnamed/part_003)
NoDescriptionDot == "No description provided."

NoDescriptionSteps == "No description provided. Please add detailed steps for this task."

TextReviewed == "This task has been reviewed and updated."

\* "I've updated Task ${n} as requested, ...": the text before and behind Task n
ReplyEditedLead == "I've updated"

ReplyEditedTail ==
  "as requested, while keeping the other tasks unchanged. Would you like to make any other changes?"

ReplyEditError ==
  "I encountered an error while trying to update task. Here are some alternatives."

ReplyGenError ==
  "I encountered an error while generating tasks. Here are some general suggestions instead."

ReplyGenTrouble ==
  "I had some trouble generating custom tasks. Here are some suggestions to get you started."

ReplyPreparedThese == "I've prepared these tasks based on your request."

TextWebsiteUrl ==
  "Since these tasks relate to website work, it would be helpful if you could share the website URL you're working with (optional). This will allow me to provide more specific guidance."

\* fixed sentences whose last character is "."
SentencesDot ==
  CatalogSentences \union
  {ReplyTail, ReplyPrepared, ReplySearchTrouble, ErrorDescription, SystemPrompt,
   SearchAnswer,
   TextCrawl, TextMeta, TextSpeed,
   NoDescriptionDot, NoDescriptionSteps, TextReviewed, ReplyEditError, ReplyGenError,
   ReplyGenTrouble, ReplyPreparedThese, TextWebsiteUrl}

\* fixed sentences whose last character is "?"
SentencesQ == {ReplyMoved, ReplyUpdated, ReplyTrouble, ReplyGenerated, ReplySuggested}

Sentences ==
  SentencesDot \union SentencesQ \union {ReplyLead, NoDescription, ReplyEditedLead}

\* /[A-Z]/ at the first character of the token
IsCap(t) ==
  t \in DOMAIN LowerMap \/ t \in CapWords \/ t \in Sentences

\* the switch without its default: no list for a type it does not name
getFallbackTasksNamed(taskType, rev) ==
  CASE taskType = "website"   -> CatalogWebsite(rev)
    [] taskType = "business"  -> CatalogBusiness(rev)
    [] taskType = "education" -> CatalogEducation(rev)
    [] taskType = "personal"  -> CatalogPersonal(rev)
    [] taskType = "general"   -> CatalogGeneral(rev)
    [] OTHER                  -> <<>>

\* a catalog whose default list asks instead of telling
getFallbackTasksAsking(taskType, rev) ==
  CASE taskType = "website"   -> CatalogWebsite(rev)
    [] taskType = "business"  -> CatalogBusiness(rev)
    [] taskType = "education" -> CatalogEducation(rev)
    [] taskType = "personal"  -> CatalogPersonal(rev)
    [] OTHER                  ->
         << [title |-> <<"What", "is", "your", "main", "goal", "?">>,
             description |-> <<DescGeneral1>>,
             timeEstimate |-> <<"2", "hours">>, id |-> IF rev THEN 1 ELSE 0],
            [title |-> <<"Which", "resources", "do", "you", "have", "?">>,
             description |-> <<DescGeneral2>>,
             timeEstimate |-> <<"3", "hours">>, id |-> IF rev THEN 2 ELSE 0],
            [title |-> <<"Implement", "a", "Tracking", "System">>,
             description |-> <<DescGeneral3>>,
             timeEstimate |-> <<"2", "hours">>, id |-> IF rev THEN 3 ELSE 0] >>

\* getFallbackTasksByType(taskType): the switch with its default
getFallbackTasksByType(taskType, rev) ==
  CASE taskType = "website"   -> CatalogWebsite(rev)
    [] taskType = "business"  -> CatalogBusiness(rev)
    [] taskType = "education" -> CatalogEducation(rev)
    [] taskType = "personal"  -> CatalogPersonal(rev)
    [] OTHER                  -> CatalogGeneral(rev)

(***************************************************************************)
(* detectQuestionsInTasks: the questionnaire classifier.                   *)
(***************************************************************************)
QuestionWords == {"what", "how", "where", "when", "why", "which", "who", "whom"}

AuxWords ==
  {"do", "does", "did", "is", "are", "am", "can", "could", "would", "should",
   "will", "have", "has", "had"}

\* tokens whose lower case begins with a verb of taskPatterns[0]
TaskVerbWords ==
  {"create", "build", "develop", "implement", "configure", "optimize",
   "improve", "fix", "add", "remove", "update", "updated", "modify"}

\* fixed sentences that begin with such a verb
TaskVerbSentences == {DescWebsite3, DescBusiness3, DescGeneral3, DescEducation1Rev}

TimeUnitWords == {"hour", "minute", "day", "week"}

ByWords == {"using", "implementing", "adding", "following"}

\* strongQuestionPatterns.some(pattern => pattern.test(title))
StrongQuestion(title) ==
  /\ title # <<>>
  /\ \/ title[Len(title)] = "?"
     \/ Lower(title[1]) \in QuestionWords
     \/ \E i \in 1..Len(title) :
          /\ Lower(title[i]) \in AuxWords
          /\ NextNonSpace(title, i) > 0
          /\ Lower(title[NextNonSpace(title, i)]) \in {"you", "your", "we", "i"}
     \/ Includes(LowerStr(title), <<"tell", "me">>)
     \/ Includes(LowerStr(title), <<"let", "me", "know">>)

\* taskPatterns.some(pattern => pattern.test(x)) for a string x
TaskPattern(x) ==
  /\ x # <<>>
  /\ \/ Lower(x[1]) \in TaskVerbWords
     \/ x[1] \in TaskVerbSentences
     \/ OccursAt(LowerStr(x), <<"set", "up">>, 1)
     \/ \E i \in 1..Len(x) :
          /\ Lower(x[i]) = "step"
          /\ NextNonSpace(x, i) > 0
          /\ IsNum(x[NextNonSpace(x, i)])
     \/ \E i \in 1..Len(x) : Lower(x[i]) \in TimeUnitWords
     \/ \E i \in 1..Len(x) :
          /\ Lower(x[i]) = "by"
          /\ NextNonSpace(x, i) > 0
          /\ Lower(x[NextNonSpace(x, i)]) \in ByWords

\* the userQueryCount filter
AddressesUser(lowercaseTitle) ==
  /\ \/ \E i \in 1..Len(lowercaseTitle) : lowercaseTitle[i] = "your"
     \/ \E i \in 1..(Len(lowercaseTitle) - 1) :
          lowercaseTitle[i] = "you" /\ lowercaseTitle[i + 1] \notin Glue \union {NL}
  /\ ~\E i \in 1..Len(lowercaseTitle) : lowercaseTitle[i] = "should"

UserQuery(task) == AddressesUser(LowerStr(task.title)) /\ StrLen(task.description) < 20

CountOf(tasks, P(_)) == Cardinality({i \in 1..Len(tasks) : P(tasks[i])})

IsQuestionTask(task) == StrongQuestion(task.title)

IsActionTask(task) == TaskPattern(task.title) \/ TaskPattern(task.description)

IsThinTask(task) == StrLen(task.description) < 30

totalQuestionIndicators(tasks) == CountOf(tasks, IsQuestionTask) + CountOf(tasks, UserQuery)

\* the classifier with Math.floor in the place of Math.ceil
detectQuestionsFloor(tasks) ==
  /\ tasks # <<>>
  /\ \/ totalQuestionIndicators(tasks) > CountOf(tasks, IsActionTask)
     \/ totalQuestionIndicators(tasks) >= Len(tasks) \div 2
     \/ /\ \A i \in 1..Len(tasks) : IsThinTask(tasks[i])
        /\ totalQuestionIndicators(tasks) > 0

detectQuestionsInTasks(tasks) ==
  /\ tasks # <<>>
  /\ \/ totalQuestionIndicators(tasks) > CountOf(tasks, IsActionTask)
     \/ totalQuestionIndicators(tasks) >= (Len(tasks) + 1) \div 2
     \/ /\ \A i \in 1..Len(tasks) : IsThinTask(tasks[i])
        /\ totalQuestionIndicators(tasks) > 0

(***************************************************************************)
(* convertTasksToReply: a questionnaire rendered as a numbered list.       *)
(***************************************************************************)
\* title.endsWith(c) for c one of "?", ".", "!"
EndsWith(s, c) ==
  /\ s # <<>>
  /\ \/ s[Len(s)] = c
     \/ c = "." /\ s[Len(s)] \in SentencesDot
     \/ c = "?" /\ s[Len(s)] \in SentencesQ

\* /^(create|implement|build|develop|improve)/i.test(title)
CommandTitle(title) ==
  /\ title # <<>>
  /\ \/ Lower(title[1]) \in {"create", "implement", "build", "develop", "improve"}
     \/ title[1] \in {DescWebsite3, DescBusiness3, DescEducation1Rev}

RenderTitle(title) ==
  IF ~EndsWith(title, "?") /\ ~EndsWith(title, ".") /\ ~EndsWith(title, "!")
     /\ ~CommandTitle(title)
  THEN title \o <<"?">> ELSE title

RECURSIVE RenderItems(_, _)
RenderItems(tasks, index) ==
  IF index > Len(tasks) THEN <<>>
  ELSE <<ToString(index), ".">> \o RenderTitle(tasks[index].title) \o <<NL>>
       \o (IF Trim(tasks[index].description) # <<>>
           THEN <<IND>> \o Trim(tasks[index].description) \o <<NL>> ELSE <<>>)
       \o (IF index < Len(tasks) THEN <<NL>> ELSE <<>>)
       \o RenderItems(tasks, index + 1)

convertTasksToReply(tasks) ==
  IF tasks = <<>> THEN <<>>
  ELSE <<ReplyLead, NL, NL>> \o RenderItems(tasks, 1) \o <<NL, NL, ReplyTail>>

(***************************************************************************)
(* extractTasksFromReply: tasks read out of free text.  The replies of the *)
(* model hold no "#" and no "*" other than the three bold labels below,    *)
(* which are tokens of their own; a reply holds either "Task n:" headers   *)
(* or bold labels, never both; a fixed sentence stands on a line of its    *)
(* own.  On such text the token patterns below are the source's regular    *)
(* expressions.  An extracted task carries no id (id = 0).                 *)
(***************************************************************************)
MdTitle == "**Title:**"

MdDesc  == "**Description:**"

MdTime  == "**Time Estimate:**"

Md == {MdTitle, MdDesc, MdTime}

DefaultTime == <<"1", "hour">>

MkTask(title, description, timeEstimate) ==
  [title |-> title, description |-> description, timeEstimate |-> timeEstimate, id |-> 0]

\* /Task\s*\d+[:\)]/i matches at token i
HdrAt(s, i) ==
  /\ Lower(s[i]) = "task"
  /\ NextNonSpace(s, i) > 0 /\ NextNonSpace(s, i) < Len(s)
  /\ IsNum(s[NextNonSpace(s, i)])
  /\ s[NextNonSpace(s, i) + 1] \in {":", ")"}

HdrEnd(s, i) == NextNonSpace(s, i) + 1

NextHdr(s, i) == MinOr0({k \in i..Len(s) : HdrAt(s, k)})

\* /(\d+)[:.]\s*([A-Z][^.]*(?:\.|$))/ matches somewhere
NumberedCapital(s) ==
  \E i \in 1..(Len(s) - 1) :
    /\ IsNum(s[i])
    /\ s[i + 1] \in {":", "."}
    /\ NextNonSpace(s, i + 1) > 0
    /\ IsCap(s[NextNonSpace(s, i + 1)])

\* the loop over taskPatterns
hasTaskIndicators(reply) ==
  \/ NextHdr(reply, 1) > 0
  \/ NumberedCapital(reply)
  \/ \E i \in 1..Len(reply) : reply[i] = MdTitle

\* reply.split(pattern): the pieces after position i, i just behind a header
RECURSIVE SplitSections(_, _)
SplitSections(s, i) ==
  IF NextHdr(s, i) = 0 THEN <<SubSeq(s, i, Len(s))>>
  ELSE <<SubSeq(s, i, NextHdr(s, i) - 1)>> \o SplitSections(s, HdrEnd(s, NextHdr(s, i)) + 1)

\* reply.split(pattern).slice(1)
taskSections(reply) ==
  IF NextHdr(reply, 1) = 0 THEN <<>>
  ELSE SplitSections(reply, HdrEnd(reply, NextHdr(reply, 1)) + 1)

\* titlePatterns[0]: "Title:" or "Task:" at token k, with a text behind it
TitleLabelAt(s, k) ==
  /\ Lower(s[k]) \in {"title", "task"}
  /\ k < Len(s) /\ s[k + 1] = ":"
  /\ NextNonSpace(s, k + 1) > 0

\* a match from token k on whose group starts at token c and ends before a
\* token of stop: <<the group trimmed, the matched text>>
Captured(s, k, c, stop) ==
  <<Trim(RunFrom(s, c, stop)), SubSeq(s, k, c + Len(RunFrom(s, c, stop)) - 1)>>

NoMatch == <<<<>>, <<>>>>

FirstTitleLabel(section) == MinOr0({i \in 1..Len(section) : TitleLabelAt(section, i)})

FirstTitleText(section) == MinOr0({i \in 1..Len(section) : section[i] \notin {".", ":", NL}})

\* the match of the title patterns in a section: <<title, matched text>>
TitleMatch(section) ==
  IF FirstTitleLabel(section) > 0
  THEN Captured(section, FirstTitleLabel(section),
                NextNonSpace(section, FirstTitleLabel(section) + 1), {NL} \union Md)
  ELSE IF FirstTitleText(section) > 0
  THEN Captured(section, FirstTitleText(section), FirstTitleText(section), {".", ":", NL})
  ELSE NoMatch

\* the words w1 w2 stand at token k: the index of w2, or 0
TwoWords(s, k, w1, w2) ==
  IF /\ Lower(s[k]) = w1
     /\ NextNonSpace(s, k) > 0
     /\ Lower(s[NextNonSpace(s, k)]) = w2
  THEN NextNonSpace(s, k) ELSE 0

\* the words of timePatterns[p] at token k: the index of the last one, or 0
LabelWordsAt(s, k, p) ==
  CASE p = 1 -> TwoWords(s, k, "time", "estimate")
    [] p = 2 -> TwoWords(s, k, "estimated", "time")
    [] p = 3 -> IF Lower(s[k]) = "duration" THEN k ELSE 0
    [] OTHER -> TwoWords(s, k, "takes", "about")

\* the optional ":" behind the words at e
ThroughColon(s, e, p) ==
  IF e > 0 /\ p < 4 /\ e < Len(s) /\ s[e + 1] = ":" THEN e + 1 ELSE e

\* the label of timePatterns[p] at token k: the index of its last token, or 0
LabelEndAt(s, k, p) == ThroughColon(s, LabelWordsAt(s, k, p), p)

TimeMatchAt(s, k, p) ==
  /\ LabelEndAt(s, k, p) > 0
  /\ NextNonSpace(s, LabelEndAt(s, k, p)) > 0
  /\ s[NextNonSpace(s, LabelEndAt(s, k, p))] # "."

FirstTime(s, p) == MinOr0({k \in 1..Len(s) : TimeMatchAt(s, k, p)})

\* the first of the time patterns that matches, or 0
FirstTimePattern(section) == MinOr0({p \in 1..4 : FirstTime(section, p) > 0})

TimeCaptured(section, k, p) ==
  Captured(section, k, NextNonSpace(section, LabelEndAt(section, k, p)), {".", NL})

\* the match of the time patterns in a section: <<timeEstimate, matched text>>
TimeMatch(section) ==
  IF FirstTimePattern(section) = 0 THEN <<DefaultTime, <<>>>>
  ELSE TimeCaptured(section, FirstTime(section, FirstTimePattern(section)),
                    FirstTimePattern(section))

\* .replace(/\n{3,}/g, '\n\n')
RECURSIVE CollapseNL(_)
CollapseNL(s) ==
  IF Len(s) < 3 THEN s
  ELSE IF s[1] = NL /\ s[2] = NL /\ s[3] = NL THEN CollapseNL(Tail(s))
  ELSE <<s[1]>> \o CollapseNL(Tail(s))

TitleLimit == 50

\* lines 113-116: the title, or "Task n" for a title that is empty or too long
TitleOr(title, n) ==
  IF title = <<>> \/ StrLen(title) > TitleLimit THEN <<"Task", ToString(n)>> ELSE title

\* lines 85, 102, 108-111: the section less the two matched texts, cleaned up
Remainder(section, titleText, timeText) ==
  Trim(CollapseNL(Trim(RemoveFirst(Trim(RemoveFirst(section, titleText)), timeText))))

SectionParts(section, titleMatch, timeMatch, i) ==
  MkTask(TitleOr(titleMatch[1], i + 1),
         Remainder(section, titleMatch[2], timeMatch[2]),
         timeMatch[1])

\* one pass of the loop over taskSections, i counted from 0
SectionTask(rawSection, i) ==
  SectionParts(Trim(rawSection), TitleMatch(Trim(rawSection)), TimeMatch(Trim(rawSection)), i)

SectionTasks(sections) == [i \in 1..Len(sections) |-> SectionTask(sections[i], i - 1)]

LabelIndex(reply, md) == MinOr0({k \in 1..Len(reply) : reply[k] = md})

HasLabel(reply, md) ==
  LabelIndex(reply, md) > 0 /\ NextNonSpace(reply, LabelIndex(reply, md)) > 0

\* the **Title:** / **Description:** / **Time Estimate:** form: the text behind label md
AfterLabel(reply, md, stop) ==
  IF ~HasLabel(reply, md) THEN <<>>
  ELSE Trim(RunFrom(reply, NextNonSpace(reply, LabelIndex(reply, md)), stop))

\* lines 124-138: the bold-label form gives one task
LabelTask(reply) ==
  MkTask(AfterLabel(reply, MdTitle, {NL} \union Md),
         AfterLabel(reply, MdDesc, {MdTime}),
         IF HasLabel(reply, MdTime) THEN AfterLabel(reply, MdTime, {NL} \union Md)
         ELSE DefaultTime)

\* line.match(/^(\d+)[:.]\s*(.+)$/)
taskMatch(line) ==
  /\ Len(line) >= 3
  /\ IsNum(line[1])
  /\ line[2] \in {":", "."}

TimeLabelWords == {"time", "times", "duration", "durations", "estimate", "estimates"}

UnitWords == {"hour", "hours", "hr", "hrs", "minute", "minutes", "min", "mins", "day", "days"}

\* the token behind the label at k and its optional ":"
AfterColon(line, k) ==
  NextNonSpace(line, IF k < Len(line) /\ line[k + 1] = ":" THEN k + 1 ELSE k)

\* a number at token n with a unit behind it
Amount(line, n) ==
  /\ n > 0 /\ IsNum(line[n])
  /\ NextNonSpace(line, n) > 0
  /\ Lower(line[NextNonSpace(line, n)]) \in UnitWords

\* timeEstimatePattern matches at token k
EstimateAt(line, k) ==
  Lower(line[k]) \in TimeLabelWords /\ Amount(line, AfterColon(line, k))

FirstEstimate(line) == MinOr0({k \in 1..Len(line) : EstimateAt(line, k)})

\* timeMatch[1]: the number and its unit
EstimateText(line, n) == <<line[n], line[NextNonSpace(line, n)]>>

\* currentTask after a line: a one-element sequence, or <<>> for null
NextCurrent(line, currentTask) ==
  IF taskMatch(line)
  THEN <<MkTask(Trim(SubSeq(line, 3, Len(line))), <<>>, DefaultTime)>>
  ELSE IF currentTask # <<>> /\ FirstEstimate(line) > 0
  THEN <<[currentTask[1] EXCEPT
            !.timeEstimate = EstimateText(line, AfterColon(line, FirstEstimate(line)))]>>
  ELSE IF currentTask # <<>> /\ line # <<>>
  THEN <<[currentTask[1] EXCEPT !.description = @ \o line \o <<NL>>]>>
  ELSE currentTask

\* the loop over the lines
RECURSIVE ListLoop(_, _, _, _)
ListLoop(lines, i, tasks, currentTask) ==
  IF i > Len(lines) THEN tasks \o currentTask
  ELSE ListLoop(lines, i + 1,
                IF taskMatch(Trim(lines[i])) THEN tasks \o currentTask ELSE tasks,
                NextCurrent(Trim(lines[i]), currentTask))

TrimDescriptions(tasks) ==
  [i \in 1..Len(tasks) |-> [tasks[i] EXCEPT !.description = Trim(@)]]

\* lines 140-182: the numbered list
ListTasks(reply) == TrimDescriptions(ListLoop(SplitLines(reply), 1, <<>>, <<>>))

\* extractTasksFromReply(reply); <<>> stands for null
extractTasksFromReply(reply) ==
  IF reply = <<>> \/ ~hasTaskIndicators(reply) THEN <<>>
  ELSE IF taskSections(reply) # <<>> THEN SectionTasks(taskSections(reply))
  ELSE IF LabelIndex(reply, MdDesc) > 0 /\ HasLabel(reply, MdTitle) THEN <<LabelTask(reply)>>
  ELSE ListTasks(reply)

(***************************************************************************)
(* ensureTasksInTasksArray: the response assembler of src/index.js.  A     *)
(* response is a record of its reply and its tasks; hasTasks = FALSE says  *)
(* the tasks property is absent (null / undefined), and tasks is then <<>>.*)
(***************************************************************************)
Response(reply, tasks) == [reply |-> reply, tasks |-> tasks, hasTasks |-> TRUE]

\* lines 1166-1190: tasks found in the reply move into the tasks array
Promoted(response, extractedTasks) ==
  IF response.tasks = <<>> /\ response.reply # <<>> /\ extractedTasks # <<>>
     /\ ~detectQuestionsInTasks(extractedTasks)
  THEN Response(<<ReplyMoved>>, extractedTasks)
  ELSE response

PromoteReply(response) == Promoted(response, extractTasksFromReply(response.reply))

\* line 1175-1178: the early return that hands the response back untouched
KeepsQuestions(response) ==
  /\ response.tasks = <<>> /\ response.reply # <<>>
  /\ extractTasksFromReply(response.reply) # <<>>
  /\ detectQuestionsInTasks(extractTasksFromReply(response.reply))

\* lines 1207-1220: the tasks array exists, a task-like reply is simplified
FinishResponse(response) ==
  IF response.tasks # <<>> /\ ~detectQuestionsInTasks(response.tasks)
     /\ response.reply # <<>> /\ extractTasksFromReply(response.reply) # <<>>
  THEN Response(<<ReplyPrepared>>, response.tasks)
  ELSE Response(response.reply, response.tasks)

\* the assembler without its second step: a questionnaire stays in tasks
QuestionsKept(response) == FinishResponse(response)

\* lines 1192-1205: a questionnaire in the tasks array becomes the reply
QuestionsToReply(response) ==
  IF response.tasks # <<>> /\ detectQuestionsInTasks(response.tasks)
  THEN Response(convertTasksToReply(response.tasks), <<>>)
  ELSE FinishResponse(response)

ensureTasksInTasksArray(response) ==
  IF KeepsQuestions(response) THEN response
  ELSE QuestionsToReply(PromoteReply(response))

(***************************************************************************)
(* The session store (chatSession.js, the revision src/index.js imports).  *)
(* sessions is the Map: a function from the ids that have a session.       *)
(***************************************************************************)
UrlTok == "https://example.com"

\* user words that hold "website", "seo", "web" or "url", or are a URL
WebsiteWords == {"website", "seo", "web", "url", UrlTok}

BusinessWords == {"business", "company", "startup", "product", "market", "customer"}

EducationWords == {"learn", "study", "education", "course"}

PersonalWords == {"personal", "life", "habit", "goal"}

HasWord(content, words) == \E i \in 1..Len(content) : Lower(content[i]) \in words

\* the task type addMessage reads off the first user message
Classify(content) ==
  IF HasWord(content, WebsiteWords) THEN "website"
  ELSE IF HasWord(content, BusinessWords) THEN "business"
  ELSE IF HasWord(content, EducationWords) THEN "education"
  ELSE IF HasWord(content, PersonalWords) THEN "personal"
  ELSE "general"

Message(role, content) == [role |-> role, content |-> content, tool_calls |-> FALSE]

NewSession ==
  [ messages         |-> <<Message("system", <<SystemPrompt>>)>>,
    taskType         |-> "null",
    questionCount    |-> 0,
    hasEnoughContext |-> FALSE,
    tasksGenerated   |-> FALSE ]

\* getSession(sessionId): the session, created when the Map has none
getSession(ss, sessionId) ==
  IF sessionId \in DOMAIN ss THEN ss[sessionId] ELSE NewSession

UserMessages(session) == SelectSeq(session.messages, LAMBDA m : m.role = "user")

\* the test that counts an assistant message as a question
AsksQuestion(content) ==
  \/ EndsWith(content, "?")
  \/ Includes(content, <<"Could", "you">>)
  \/ Includes(content, <<"Can", "you">>)

MinUserMessages == 2

MinQuestions == 2

\* sessions.set(sessionId, session)
Put(ss, sessionId, session) ==
  [s \in DOMAIN ss \union {sessionId} |-> IF s = sessionId THEN session ELSE ss[s]]

\* every user message classified anew
TypeAfterLatest(session, message) ==
  IF message.role = "user" THEN Classify(message.content) ELSE session.taskType

\* lines 308-330
TypeAfter(session, message) ==
  IF session.taskType = "null" /\ message.role = "user"
  THEN Classify(message.content) ELSE session.taskType

\* lines 332-338
CountAfter(session, message) ==
  IF message.role = "assistant" /\ AsksQuestion(message.content)
  THEN session.questionCount + 1 ELSE session.questionCount

\* the message put in front of the transcript
AddedFront(session, message) ==
  [ messages         |-> <<message>> \o session.messages,
    taskType         |-> TypeAfter(session, message),
    questionCount    |-> CountAfter(session, message),
    hasEnoughContext |-> \/ session.hasEnoughContext
                         \/ Len(UserMessages(session)) >= 2
                         \/ CountAfter(session, message) >= 2,
    tasksGenerated   |-> session.tasksGenerated ]

\* the session after addMessage
Added(session, message) ==
  [ messages         |-> Append(session.messages, message),
    taskType         |-> TypeAfter(session, message),
    questionCount    |-> CountAfter(session, message),
    hasEnoughContext |-> \/ session.hasEnoughContext
                         \/ Len(UserMessages(session)) >= 2
                         \/ CountAfter(session, message) >= 2,
    tasksGenerated   |-> session.tasksGenerated ]

addMessage(ss, sessionId, message) ==
  Put(ss, sessionId, Added(getSession(ss, sessionId), message))

getMessages(ss, sessionId) == getSession(ss, sessionId).messages

getTaskType(ss, sessionId) == getSession(ss, sessionId).taskType

\* the content of the latest user message in lower case, "" when there is none
LastUserMessage(session) ==
  IF UserMessages(session) = <<>> THEN <<>>
  ELSE LowerStr(UserMessages(session)[Len(UserMessages(session))].content)

explicitTaskRequests ==
  { <<"please", "generate", "tasks">>, <<"generate", "tasks", "now">>,
    <<"create", "tasks", "for", "me">>, <<"give", "me", "the", "tasks">>,
    <<"show", "me", "tasks", "now">>, <<"i", "want", "the", "tasks", "now">>,
    <<"finish", "the", "tasks">>, <<"generate", "the", "final", "tasks">> }

hasExplicitRequest(content) == \E phrase \in explicitTaskRequests : Includes(content, phrase)

isReadyForTasksFlag(ss, sessionId) == getSession(ss, sessionId).hasEnoughContext

hasSubstantialConversation(session) ==
  Len(UserMessages(session)) >= MinUserMessages /\ session.questionCount >= MinQuestions

isReadyForTasks(ss, sessionId) ==
  \/ hasExplicitRequest(LastUserMessage(getSession(ss, sessionId)))
  \/ hasSubstantialConversation(getSession(ss, sessionId))

hasGeneratedTasks(ss, sessionId) == getSession(ss, sessionId).tasksGenerated = TRUE

markTasksGenerated(ss, sessionId) ==
  Put(ss, sessionId, [getSession(ss, sessionId) EXCEPT !.tasksGenerated = TRUE])

resetQuestionCount(ss, sessionId) ==
  Put(ss, sessionId, [getSession(ss, sessionId) EXCEPT !.questionCount = 0])

clearSession(ss, sessionId) == [s \in DOMAIN ss \ {sessionId} |-> ss[s]]

(***************************************************************************)
(* What the language model answers.  A chat completion either rejects, or  *)
(* carries a text (<<>> for null content), or, in JSON mode, a text that   *)
(* parses to a payload or does not parse.  JSON.parse(JSON.stringify(v))   *)
(* is v for the values here (objects of strings), so a payload stands for  *)
(* its text; Stringify gives the tokens addMessage looks at.               *)
(***************************************************************************)
AskGoal == <<"What", "is", "your", "main", "goal", "?">>

OneStep == <<"1", ".", "Create", "a", "sitemap", "by", "using", "a", "generator">>

ThreeSteps ==
  <<"1", ".", "Audit", "the", "site", NL, TextCrawl, NL, "Time", ":", "2", "hours", NL,
    "2", ".", "Create", "meta", "text", NL, TextMeta, NL,
    "3", ".", "Improve", "page", "speed", NL, TextSpeed>>

AskList ==
  <<"1", ".", "What", "is", "your", "goal", "?", NL,
    "2", ".", "Which", "pages", "matter", "?", NL,
    "3", ".", "Do", "you", "have", "a", "budget", "?">>

ModelReplies == {<<>>, AskGoal, OneStep, AskList}

\* the text beside a tool call, and the text of the call that follows the
\* tool: a message that requests a tool has null content, here <<>>
ToolCallContents == {<<>>, AskGoal}

GoodTasks ==
  << MkTask(<<"Audit", "the", "site">>, <<TextCrawl>>, <<"2", "hours">>),
     MkTask(<<"Create", "meta", "text">>, <<TextMeta>>, <<"3", "hours">>),
     MkTask(<<"Improve", "page", "speed">>, <<TextSpeed>>, <<"1", "hour">>) >>

AskTasks ==
  << MkTask(<<"What", "is", "your", "goal", "?">>, <<"short">>, <<"1", "hour">>),
     MkTask(<<"Can", "you", "share", "your", "url", "?">>, <<"short">>, <<"1", "hour">>),
     MkTask(<<"Create", "a", "plan">>, <<TextCrawl>>, <<"1", "hour">>) >>

\* a task whose description the model left out
GappyTasks == [GoodTasks EXCEPT ![2].description = <<>>]

Payload(kind, tasks, reply) == [kind |-> kind, tasks |-> tasks, reply |-> reply]

NonJson == Payload("invalid", <<>>, <<>>)

Payloads ==
  { Payload("object", GoodTasks, <<>>),
    Payload("object", SubSeq(GoodTasks, 1, 2), <<>>),
    Payload("object", AskTasks, <<>>),
    Payload("object", GappyTasks, <<>>),
    Payload("object", <<>>, OneStep),
    Payload("object", <<>>, <<>>),
    NonJson }

\* JSON.stringify({tasks}): the text of the tasks, field after field
RECURSIVE Stringify(_)
Stringify(tasks) ==
  IF tasks = <<>> THEN <<"}">>
  ELSE <<"{">> \o tasks[1].title \o <<"|">> \o tasks[1].description \o <<"|">>
       \o tasks[1].timeEstimate \o Stringify(Tail(tasks))

\* lines 527-537 / 923-933: the task list the parsed data carries
ListedTasks(parsedData) ==
  IF parsedData.kind \in {"array", "object"} THEN parsedData.tasks
  ELSE IF /\ parsedData.kind = "single"
          /\ parsedData.tasks[1].title # <<>>
          /\ parsedData.tasks[1].description # <<>>
          /\ parsedData.tasks[1].timeEstimate # <<>>
  THEN parsedData.tasks
  ELSE <<>>

\* lines 539-547 / 935-943: else the tasks its reply text holds
ParsedTasks(parsedData) ==
  IF ListedTasks(parsedData) = <<>> /\ parsedData.reply # <<>>
     /\ extractTasksFromReply(parsedData.reply) # <<>>
  THEN extractTasksFromReply(parsedData.reply)
  ELSE ListedTasks(parsedData)

UntitledTask == <<"Untitled", "Task">>

\* tasksList.map(...).slice(0, 3)
Defaulted(tasksList) ==
  [i \in 1..(IF Len(tasksList) < 3 THEN Len(tasksList) ELSE 3) |->
     MkTask(IF tasksList[i].title = <<>> THEN UntitledTask ELSE tasksList[i].title,
          IF tasksList[i].description = <<>> THEN <<NoDescription>>
          ELSE tasksList[i].description,
          IF tasksList[i].timeEstimate = <<>> THEN DefaultTime
          ELSE tasksList[i].timeEstimate)]

\* while (validatedTasks.length < 3) push(fallbackTasks[validatedTasks.length - 1])
RECURSIVE PadTasks(_, _)
PadTasks(validatedTasks, fallbackTasks) ==
  IF Len(validatedTasks) >= 3 THEN validatedTasks
  ELSE PadTasks(Append(validatedTasks, fallbackTasks[Len(validatedTasks)]), fallbackTasks)

\* lines 549-552 / 945-948
OrFallback(tasksList, fallbackTasks) == IF tasksList = <<>> THEN fallbackTasks ELSE tasksList

\* lines 549-562 / 945-958
ValidatedTasks(parsedData, fallbackTasks) ==
  PadTasks(Defaulted(OrFallback(ParsedTasks(parsedData), fallbackTasks)), fallbackTasks)

ErrorTask ==
  MkTask(<<"Error", "in", "task", "generation">>, <<ErrorDescription>>, <<"0", "hours">>)

\* lines 868-913: the tasks that pass the validation, else the error task
CleanedTasks(parsedData) ==
  IF /\ parsedData.kind = "object"
     /\ Len(parsedData.tasks) = 3
     /\ \A i \in 1..3 : /\ parsedData.tasks[i].title # <<>>
                        /\ parsedData.tasks[i].description # <<>>
                        /\ parsedData.tasks[i].timeEstimate # <<>>
  THEN [i \in 1..3 |-> MkTask(Trim(parsedData.tasks[i].title),
                            Trim(parsedData.tasks[i].description),
                            Trim(parsedData.tasks[i].timeEstimate))]
  ELSE <<ErrorTask>>

(***************************************************************************)
(* The conversation controller of src/index.js.  One action is one HTTP    *)
(* request handled from its first line to its response; the outcome of     *)
(* every call to the model is an input of the action.                      *)
(*   sessions  the Map of chatSession.js                                   *)
(*   turn      the number of requests handled so far                       *)
(*   branch    the branch of processMessage the last request took          *)
(*   calls     the calls the last request made, in order                   *)
(*   raw       what processMessage returned to the last request            *)
(*   resp      the HTTP response of the last request                       *)
(***************************************************************************)
VARIABLES sessions, turn, branch, calls, raw, resp

vars == <<sessions, turn, branch, calls, raw, resp>>

SessionIds == {"s1"}

MaxTurns == 2

UserTexts ==
  { <<"improve", UrlTok>>,
    <<"please", "generate", "tasks">>,
    <<"change", "task", "2">>,
    <<"ok", "thanks">> }

NoBody == [status |-> 0, reply |-> <<>>, tasks |-> <<>>, hasTasks |-> FALSE]

\* res.json({sessionId, ...response})
Ok(response) ==
  [status |-> 200, reply |-> response.reply, tasks |-> response.tasks,
   hasTasks |-> response.hasTasks]

\* res.status(code).json({error})
Failed(code) == [NoBody EXCEPT !.status = code]

\* processMessage has not returned
NoReturn == [threw |-> FALSE, reply |-> <<>>, tasks |-> <<>>, hasTasks |-> FALSE]

Thrown == [NoReturn EXCEPT !.threw = TRUE]

Returned(reply, tasks) ==
  [threw |-> FALSE, reply |-> reply, tasks |-> tasks, hasTasks |-> TRUE]

Init ==
  /\ sessions = <<>>
  /\ turn = 0
  /\ branch = "none"
  /\ calls = <<>>
  /\ raw = NoReturn
  /\ resp = NoBody

\* lines 399-401: the user message enters the session before processMessage runs
Entered(sessionId, message) ==
  addMessage(sessions, sessionId, Message("user", message))

EditWords == {"edit", "change", "modify", "update", "different", "revise", "adjust"}

\* lines 493-503
isAskingForTaskChange(ss, sessionId) ==
  HasWord(LastUserMessage(getSession(ss, sessionId)), EditWords)

\* lines 616-628: a website session whose user messages mention a URL
MentionsUrl(ss, sessionId) ==
  /\ getTaskType(ss, sessionId) = "website"
  /\ \E i \in 1..Len(getMessages(ss, sessionId)) :
       /\ getMessages(ss, sessionId)[i].role = "user"
       /\ HasWord(getMessages(ss, sessionId)[i].content, {UrlTok})

\* lines 403-409: processMessage returned, the assembler runs, 200 goes out
Respond(ss, taken, made, reply, tasks) ==
  /\ sessions' = ss
  /\ turn' = turn + 1
  /\ branch' = taken
  /\ calls' = made
  /\ raw' = Returned(reply, tasks)
  /\ resp' = Ok(ensureTasksInTasksArray(Response(reply, tasks)))

\* lines 410-415: processMessage threw, the handler answers 500
Fail(ss, taken, made) ==
  /\ sessions' = ss
  /\ turn' = turn + 1
  /\ branch' = taken
  /\ calls' = made
  /\ raw' = Thrown
  /\ resp' = Failed(500)

\* lines 378-397: a request without a usable message
ChatInvalid ==
  /\ turn < MaxTurns
  /\ turn' = turn + 1
  /\ resp' = Failed(400)
  /\ branch' = "invalid"
  /\ calls' = <<>>
  /\ raw' = NoReturn
  /\ UNCHANGED sessions

\* the insight call of lines 629-643, made when a URL is mentioned
InsightCalls(ss, sessionId, insight) ==
  IF MentionsUrl(ss, sessionId) THEN <<insight>> ELSE <<>>

InsightOutcomes(ss, sessionId) ==
  IF MentionsUrl(ss, sessionId) THEN {"insight ok", "insight failed"} ELSE {"none"}

Questioning(ss, sessionId) ==
  ~hasGeneratedTasks(ss, sessionId) /\ ~isReadyForTasks(ss, sessionId)

\* lines 610-679, 740-746 on the session ss the user message has entered
Asked(ss, sessionId, content) ==
  /\ turn < MaxTurns
  /\ Questioning(ss, sessionId)
  /\ \E insight \in InsightOutcomes(ss, sessionId) :
       Respond(addMessage(ss, sessionId, Message("assistant", content)),
               "questioning", InsightCalls(ss, sessionId, insight) \o <<"question">>,
               content, <<>>)

\* a question is asked and the model answers in text
ChatQuestion(sessionId, message, content) ==
  Asked(Entered(sessionId, message), sessionId, content)

AskRejected(ss, sessionId) ==
  /\ turn < MaxTurns
  /\ Questioning(ss, sessionId)
  /\ \E insight \in InsightOutcomes(ss, sessionId) :
       Fail(ss, "questioning", InsightCalls(ss, sessionId, insight) \o <<"question rejected">>)

\* line 657: the call of the questioning branch rejects
ChatQuestionRejected(sessionId, message) == AskRejected(Entered(sessionId, message), sessionId)

\* the assistant's tool call joins the transcript, the tool's answer does not
WithSearchUnanswered(ss, sessionId, content) ==
  addMessage(ss, sessionId, [role |-> "assistant", content |-> content, tool_calls |-> TRUE])

\* lines 694-717: the assistant's tool call and the tool's answer join the transcript
WithSearch(ss, sessionId, content) ==
  addMessage(addMessage(ss, sessionId,
                        [role |-> "assistant", content |-> content, tool_calls |-> TRUE]),
             sessionId, Message("tool", <<SearchAnswer>>))

\* the tool request of the follow-up executed as well
SearchedAgain(ss, sessionId, content, last, followUp) ==
  /\ turn < MaxTurns
  /\ Questioning(ss, sessionId)
  /\ \E insight \in InsightOutcomes(ss, sessionId) :
       Respond(addMessage(WithSearch(WithSearch(ss, sessionId, content), sessionId, last),
                          sessionId, Message("assistant", last)),
               "questioning",
               InsightCalls(ss, sessionId, insight)
                 \o <<"question", "search", followUp, "search", followUp>>,
               last, <<>>)

\* lines 681-738 on the session ss; last is the text the turn ends with
Searched(ss, sessionId, content, last, followUp) ==
  /\ turn < MaxTurns
  /\ Questioning(ss, sessionId)
  /\ \E insight \in InsightOutcomes(ss, sessionId) :
       Respond(addMessage(WithSearch(ss, sessionId, content), sessionId,
                          Message("assistant", last)),
               "questioning",
               InsightCalls(ss, sessionId, insight) \o <<"question", "search", followUp>>,
               last, <<>>)

\* the model calls the search tool; finalAnswer is the text of the second
\* call, rejected says that call failed
ChatQuestionTool(sessionId, message, content, finalAnswer, rejected) ==
  Searched(Entered(sessionId, message), sessionId, content,
           IF rejected THEN <<ReplySearchTrouble>> ELSE finalAnswer,
           IF rejected THEN "follow-up rejected" ELSE "follow-up")

\* how the JSON call of a generation ends
GenerationOutcomes == {"answered", "rejected", "timed out"}

fallbackTasks(ss, sessionId) == getFallbackTasksByType(getTaskType(ss, sessionId), FALSE)

\* the name a JSON call goes by in calls: its text parsed, or did not
JsonCall(name, parsedData) ==
  IF parsedData.kind = "invalid" THEN name \o " unparsable" ELSE name

\* lines 564-581 / 960-977: a questionnaire goes back as a reply, tasks are
\* marked generated and returned
Answered(ss, sessionId, validatedTasks, taken, call, reply) ==
  IF detectQuestionsInTasks(validatedTasks)
  THEN Respond(ss, taken, <<call>>, convertTasksToReply(validatedTasks), <<>>)
  ELSE Respond(resetQuestionCount(markTasksGenerated(ss, sessionId), sessionId),
               taken, <<call>>, <<reply>>, validatedTasks)

\* lines 749-988 on the session ss
Generation(ss, sessionId, outcome, parsedData) ==
  /\ turn < MaxTurns
  /\ ~hasGeneratedTasks(ss, sessionId)
  /\ isReadyForTasks(ss, sessionId)
  /\ IF outcome # "answered"
     THEN /\ parsedData = NonJson
          /\ Respond(ss, "generation", <<"generate " \o outcome>>,
                     <<ReplySuggested>>, fallbackTasks(ss, sessionId))
     ELSE Answered(addMessage(ss, sessionId,
                              Message("assistant", Stringify(CleanedTasks(parsedData)))),
                   sessionId,
                   ValidatedTasks(Payload("object", CleanedTasks(parsedData), <<>>),
                                  fallbackTasks(ss, sessionId)),
                   "generation", JsonCall("generate", parsedData), ReplyGenerated)

\* the session is ready; parsedData is what the model's text parses to when
\* the call is answered
ChatGenerate(sessionId, message, outcome, parsedData) ==
  Generation(Entered(sessionId, message), sessionId, outcome, parsedData)

\* lines 505-589 on the session ss
Editing(ss, sessionId, parsedData) ==
  /\ turn < MaxTurns
  /\ hasGeneratedTasks(ss, sessionId)
  /\ isAskingForTaskChange(ss, sessionId)
  /\ IF parsedData.kind = "invalid"
     THEN Respond(ss, "editing", <<JsonCall("edit", parsedData)>>, <<ReplyTrouble>>,
                  fallbackTasks(ss, sessionId))
     ELSE Answered(ss, sessionId, ValidatedTasks(parsedData, fallbackTasks(ss, sessionId)),
                   "editing", "edit", ReplyUpdated)

\* tasks exist and the user asks for a change
ChatEdit(sessionId, message, parsedData) ==
  Editing(Entered(sessionId, message), sessionId, parsedData)

EditRejected(ss, sessionId) ==
  /\ turn < MaxTurns
  /\ hasGeneratedTasks(ss, sessionId)
  /\ isAskingForTaskChange(ss, sessionId)
  /\ Fail(ss, "editing", <<"edit rejected">>)

\* line 515: the call of the edit branch rejects, outside any try
ChatEditRejected(sessionId, message) == EditRejected(Entered(sessionId, message), sessionId)

\* lines 590-606 on the session ss
Continued(ss, sessionId, content) ==
  /\ turn < MaxTurns
  /\ hasGeneratedTasks(ss, sessionId)
  /\ ~isAskingForTaskChange(ss, sessionId)
  /\ Respond(addMessage(ss, sessionId, Message("assistant", content)),
             "continuing", <<"continue">>, content, <<>>)

\* tasks exist and the conversation goes on
ChatContinue(sessionId, message, content) ==
  Continued(Entered(sessionId, message), sessionId, content)

ContinueRejected(ss, sessionId) ==
  /\ turn < MaxTurns
  /\ hasGeneratedTasks(ss, sessionId)
  /\ ~isAskingForTaskChange(ss, sessionId)
  /\ Fail(ss, "continuing", <<"continue rejected">>)

\* line 597: the call of the continuing branch rejects
ChatContinueRejected(sessionId, message) ==
  ContinueRejected(Entered(sessionId, message), sessionId)

\* app.delete('/chat/:sessionId')
DeleteChat(sessionId) ==
  /\ turn < MaxTurns
  /\ turn' = turn + 1
  /\ sessions' = clearSession(sessions, sessionId)
  /\ branch' = "cleared"
  /\ calls' = <<>>
  /\ raw' = NoReturn
  /\ resp' = Failed(200)

Next ==
  \/ ChatInvalid
  \/ \E sessionId \in SessionIds, message \in UserTexts :
       \/ \E content \in ModelReplies : ChatQuestion(sessionId, message, content)
       \/ ChatQuestionRejected(sessionId, message)
       \/ \E content \in ToolCallContents, finalAnswer \in ToolCallContents :
            ChatQuestionTool(sessionId, message, content, finalAnswer, FALSE)
       \/ ChatQuestionTool(sessionId, message, <<>>, <<>>, TRUE)
       \/ \E outcome \in GenerationOutcomes, parsedData \in Payloads :
            ChatGenerate(sessionId, message, outcome, parsedData)
       \/ \E parsedData \in Payloads : ChatEdit(sessionId, message, parsedData)
       \/ ChatEditRejected(sessionId, message)
       \/ \E content \in ModelReplies : ChatContinue(sessionId, message, content)
       \/ ChatContinueRejected(sessionId, message)
  \/ \E sessionId \in SessionIds : DeleteChat(sessionId)

Spec == Init /\ [][Next]_vars

(***************************************************************************)
(* Properties of the controller of src/index.js, checked under Spec.       *)
(***************************************************************************)
ChatBranches == {"questioning", "generation", "editing", "continuing"}

\* the last request was a chat turn that the handler answered with 200
Answered200 == branch \in ChatBranches /\ resp.status = 200

\* C1: every response that leaves ensureTasksInTasksArray carries a tasks
\* list of length 0 or of length 3, also when the assembler read the list
\* out of the reply text itself.
C1_TasksNoneOrThree == Answered200 => Len(resp.tasks) \in {0, 3}

\* C2: every task of a returned, non-empty tasks list has a non-empty title,
\* a non-empty description and a non-empty timeEstimate, on every branch.
C2_TaskFieldsFilled ==
  Answered200 =>
    \A i \in 1..Len(resp.tasks) :
      /\ resp.tasks[i].title # <<>>
      /\ resp.tasks[i].description # <<>>
      /\ resp.tasks[i].timeEstimate # <<>>

FailedJsonCalls ==
  {"generate rejected", "generate timed out", "generate unparsable",
   "edit rejected", "edit unparsable"}

\* the JSON call of the last turn was rejected, timed out or gave no JSON
JsonCallFailed == \E i \in 1..Len(calls) : calls[i] \in FailedJsonCalls

\* C3: when the model call of a generation or editing turn fails (it
\* rejects, times out, or answers with text that is not JSON), the turn
\* returns the three fallback tasks of the session's task type, and the
\* failure does not leave processMessage.
C3_FailureGivesFallback ==
  (branch \in {"generation", "editing"} /\ JsonCallFailed) =>
    /\ ~raw.threw
    /\ \A sessionId \in SessionIds : raw.tasks = fallbackTasks(sessions, sessionId)

\* C4: a failing model call or website analysis of a questioning or a
\* continuing turn never gives the client status 500.
C4_NoServerError == branch \in {"questioning", "continuing"} => resp.status # 500

\* C7: a turn taken while the session is not ready and has no tasks
\* generated answers with an empty tasks list, whatever the model wrote.
C7_QuestioningHasNoTasks ==
  (branch = "questioning" /\ resp.status = 200) => resp.tasks = <<>>

\* the session as the turn found it, with the user message of the turn in
EnteredWith(ss, after, sessionId) ==
  addMessage(ss, sessionId,
             Message("user", UserMessages(after[sessionId])[Len(UserMessages(after[sessionId]))].content))

\* what the specification says readiness is, for a turn from ss to after
StatedReady(ss, after, sessionId) ==
  \/ hasExplicitRequest(LastUserMessage(after[sessionId]))
  \/ /\ Len(UserMessages(after[sessionId])) >= 2
     /\ getSession(ss, sessionId).questionCount >= 2

MaxPasses == 2

\* a one-task list whose task asks the user without being a question
VagueTasks == << MkTask(<<"Describe", "your", "goals", ".">>, <<"short">>, <<"1", "hour">>) >>

AsmReplies ==
  { <<>>, AskGoal, OneStep, AskList, ThreeSteps, <<ReplyGenerated>>,
    convertTasksToReply(AskTasks) }

AsmTasks == {<<>>, GoodTasks, AskTasks, VagueTasks, GappyTasks}

\* a response object; hasTasks = FALSE is one without a tasks property
Given(reply, tasks, hasTasks) ==
  [threw |-> FALSE, reply |-> reply, tasks |-> tasks, hasTasks |-> hasTasks]

AsmInputs ==
  {Given(reply, tasks, TRUE) : reply \in AsmReplies, tasks \in AsmTasks}
    \union {Given(reply, <<>>, FALSE) : reply \in AsmReplies}

Handed(r) == [reply |-> r.reply, tasks |-> r.tasks, hasTasks |-> r.hasTasks]

InitAsm ==
  /\ sessions = <<>>
  /\ turn = 0
  /\ branch = "none"
  /\ calls = <<>>
  /\ raw \in AsmInputs
  /\ resp = NoBody

Assemble ==
  /\ turn < MaxPasses
  /\ resp' = Ok(ensureTasksInTasksArray(IF turn = 0 THEN Handed(raw) ELSE Handed(resp)))
  /\ turn' = turn + 1
  /\ branch' = "assembled"
  /\ UNCHANGED <<sessions, calls, raw>>

NextAsm == Assemble

SpecAsm == InitAsm /\ [][NextAsm]_vars

\* C6: a response the assembler returns with a non-empty tasks list holds no
\* questionnaire; a questionnaire handed in as the tasks list comes back as
\* tasks = [] with the reply convertTasksToReply renders from it.
C6_NoQuestionsSurfaced ==
  branch = "assembled" =>
    /\ resp.tasks # <<>> => ~detectQuestionsInTasks(resp.tasks)
    /\ (turn = 1 /\ detectQuestionsInTasks(raw.tasks)) =>
         /\ resp.tasks = <<>>
         /\ resp.reply = convertTasksToReply(raw.tasks)

\* the assembler was handed a questionnaire as the tasks list
C6_Witness ==
  /\ branch = "assembled" /\ turn = 1
  /\ detectQuestionsInTasks(raw.tasks)
  /\ resp.reply = convertTasksToReply(raw.tasks)

\* C9: handing the assembler a response it returned gives back the same
\* tasks and the same reply.
C9_SecondPassChangesNothing ==
  branch = "assembled" =>
    /\ ensureTasksInTasksArray(Handed(resp)).tasks = resp.tasks
    /\ ensureTasksInTasksArray(Handed(resp)).reply = resp.reply

\* C10: the object the assembler returns has a tasks array, also when the
\* response it was handed had no tasks property.
C10_TasksIsArray == branch = "assembled" => resp.hasTasks

(***************************************************************************)
(* The later revision of index.js (src/unnamed/part_003): task editing.    *)
(* Its extractTasksFromReply, detectQuestionsInTasks and                   *)
(* convertTasksToReply are those of src/index.js, line for line.  Its      *)
(* chatSession.js is the revision with the edit flags                      *)
(* (src/unnamed/part_006, lines 76-268); storeGeneratedTasks and           *)
(* getStoredTasks are in no source file and are taken from the             *)
(* specification: the session field lastTaskSet, here storedTasks.  -1 is  *)
(* the null of specificTaskEditing.  A message carries the tasks its JSON  *)
(* content holds in the field tasks.                                       *)
(***************************************************************************)
NoIndex == 0 - 1

Note(role, content, tasks) == [role |-> role, content |-> content, tasks |-> tasks]

ImmediateTaskTriggers ==
  { <<"generate", "task">>, <<"generate", "tasks">>, <<"create", "task">>,
    <<"create", "tasks">>, <<"make", "task">>, <<"make", "tasks">>,
    <<"give", "me", "task">>, <<"give", "me", "tasks">>, <<"i", "need", "task">>,
    <<"i", "need", "tasks">>, <<"generate", "a", "plan">>, <<"create", "a", "plan">>,
    <<"make", "a", "plan">>, <<"create", "steps">>, <<"generate", "steps">> }

EditTaskVerbs == {"edit", "modify", "change", "update", "revise", "fix"}

\* editTaskTriggers.some(trigger => content.includes(trigger))
HasEditTrigger(content) ==
  \E i \in 1..(Len(content) - 1) :
    content[i] \in EditTaskVerbs /\ content[i + 1] \in {"task", "tasks"}

NumVal == [n \in NumTok |-> CHOOSE k \in 0..5 : ToString(k) = n]

\* content.match(/task\s*(\d+)|.../i): the index of the number, 0 without a match
TaskNumberAt(content) ==
  MinOr0({i \in 2..Len(content) : content[i - 1] = "task" /\ IsNum(content[i])})

\* lines 159-172 of the session store: the flags an edit request sets
IndexAfter(session, content) ==
  IF /\ HasEditTrigger(content)
     /\ TaskNumberAt(content) > 0
     /\ NumVal[content[TaskNumberAt(content)]] > 0
     /\ NumVal[content[TaskNumberAt(content)]] <= 3
  THEN NumVal[content[TaskNumberAt(content)]] - 1
  ELSE session.specificTaskEditing

MaxQuestions == 3

DetailedLength == 100

\* the content of the latest user message, "" when there is none
LastUserContent(session) ==
  IF UserMessages(session) = <<>> THEN <<>>
  ELSE UserMessages(session)[Len(UserMessages(session))].content

\* addMessage of that revision: the session after the message
AddedRev(session, message) ==
  [ session EXCEPT
      !.messages = Append(@, message),
      !.taskType = TypeAfter(session, message),
      !.questionCount = CountAfter(session, message),
      !.hasEnoughContext =
         \/ @
         \/ message.role = "user"
              /\ \E trigger \in ImmediateTaskTriggers :
                   Includes(LowerStr(message.content), trigger)
         \/ StrLen(LastUserContent(session)) > DetailedLength
         \/ Len(UserMessages(session)) >= 2
         \/ CountAfter(session, message) >= MaxQuestions,
      !.taskEditRequested =
         @ \/ (message.role = "user" /\ HasEditTrigger(LowerStr(message.content))),
      !.specificTaskEditing =
         IF message.role = "user" THEN IndexAfter(session, LowerStr(message.content))
         ELSE @ ]

isTaskEditRequested(session) == session.taskEditRequested = TRUE

getSpecificTaskToEdit(session) == session.specificTaskEditing

clearTaskEditRequest(session) ==
  [session EXCEPT !.taskEditRequested = FALSE, !.specificTaskEditing = NoIndex]

\* from the specification: lastTaskSet is replaced by the tasks handed in
storeGeneratedTasks(session, tasks) == [session EXCEPT !.storedTasks = tasks]

\* from the specification: the lastTaskSet of the session
getStoredTasks(session) == session.storedTasks

\* lowercase tokens that hold one of the websiteKeywords
WebsiteTokens ==
  {"website", "seo", "site", "sitemap", "url", DescWebsite1, DescWebsite2, TextCrawl}

isWebsiteRelatedTask(task) ==
  /\ task.title # <<>> /\ task.description # <<>>
  /\ \/ \E i \in 1..Len(task.title) : Lower(task.title[i]) \in WebsiteTokens
     \/ \E i \in 1..Len(task.description) : Lower(task.description[i]) \in WebsiteTokens
     \/ \E word \in {"page", "pages", "content"} :
          Includes(LowerStr(task.title \o task.description), <<"web", word>>)

checkForWebsiteTasks(tasks) == \E i \in 1..Len(tasks) : isWebsiteRelatedTask(tasks[i])

\* lines 1286-1296: the reply asks for the URL of the website
AsksForUrl(response) ==
  IF response.tasks # <<>> /\ checkForWebsiteTasks(response.tasks)
  THEN Response((IF response.reply = <<>> THEN <<ReplyPreparedThese>> ELSE response.reply)
                  \o <<TextWebsiteUrl>>, response.tasks)
  ELSE response

\* lines 1299-1313
FinishResponseRev(response) ==
  IF response.tasks # <<>> /\ ~detectQuestionsInTasks(response.tasks)
     /\ response.reply # <<>> /\ extractTasksFromReply(response.reply) # <<>>
     /\ ~\E i \in 1..Len(response.reply) : response.reply[i] = TextWebsiteUrl
  THEN Response(<<ReplyPrepared>>, response.tasks)
  ELSE Response(response.reply, response.tasks)

\* lines 1274-1297
QuestionsToReplyRev(response) ==
  IF response.tasks # <<>> /\ detectQuestionsInTasks(response.tasks)
  THEN Response(convertTasksToReply(response.tasks), <<>>)
  ELSE FinishResponseRev(AsksForUrl(response))

\* ensureTasksInTasksArray of the later revision
ensureTasksInTasksArrayRev(response) ==
  IF KeepsQuestions(response) THEN response
  ELSE QuestionsToReplyRev(PromoteReply(response))

TimeEstimateLimit == 20

fallbackTasksRev(session) == getFallbackTasksByType(session.taskType, TRUE)

\* the indices of the system messages whose JSON content holds a tasks list
NotedAt(messages) ==
  {i \in 1..Len(messages) : messages[i].role = "system" /\ messages[i].tasks # <<>>}

RecentLimit == 6

LastOf(s, n) == IF Len(s) <= n THEN s ELSE SubSeq(s, Len(s) - n + 1, Len(s))

\* lines 408-411 of processMessage: the first system message and the last
\* six messages of the other roles
passedMessages(session) ==
  (IF \E i \in 1..Len(session.messages) : session.messages[i].role = "system"
   THEN <<SelectSeq(session.messages, LAMBDA m : m.role = "system")[1]>> ELSE <<>>)
    \o LastOf(SelectSeq(session.messages, LAMBDA m : m.role # "system"), RecentLimit)

\* lines 695-734: the tasks to edit, from the store, else the latest system
\* message handed in that holds some, else the catalog
FoundTasks(session) ==
  IF getStoredTasks(session) # <<>> THEN getStoredTasks(session)
  ELSE IF NotedAt(passedMessages(session)) # {}
  THEN passedMessages(session)[CHOOSE i \in NotedAt(passedMessages(session)) :
                                 \A k \in NotedAt(passedMessages(session)) : k <= i].tasks
  ELSE fallbackTasksRev(session)

OrElse(text, default) == IF text = <<>> THEN default ELSE text

\* lines 740-745
Completed(tasks) ==
  [i \in 1..(IF Len(tasks) < 3 THEN Len(tasks) ELSE 3) |->
     [ id           |-> IF tasks[i].id = 0 THEN i ELSE tasks[i].id,
       title        |-> OrElse(Trim(tasks[i].title), UntitledTask),
       description  |-> OrElse(Trim(tasks[i].description), <<NoDescriptionDot>>),
       timeEstimate |-> OrElse(Trim(tasks[i].timeEstimate), DefaultTime) ]]

\* lines 695-751
existingTasks(session) == PadTasks(Completed(FoundTasks(session)), fallbackTasksRev(session))

\* the object the edit call answers with: a property is <<>> when it is absent
EditedRaw(title, description, timeEstimate, capTitle, capDescription, capTime) ==
  [ title |-> title, description |-> description, timeEstimate |-> timeEstimate,
    Title |-> capTitle, Description |-> capDescription, TimeEstimate |-> capTime ]

\* lines 797-801
editedTask(editedTaskRaw) ==
  [ title        |-> OrElse(editedTaskRaw.title, editedTaskRaw.Title),
    description  |-> OrElse(editedTaskRaw.description, editedTaskRaw.Description),
    timeEstimate |-> OrElse(editedTaskRaw.timeEstimate, editedTaskRaw.TimeEstimate) ]

\* lines 804-809
updatedTask(existing, edited) ==
  [ id           |-> existing.id,
    title        |-> Trim(OrElse(edited.title, existing.title)),
    description  |-> Trim(OrElse(edited.description, existing.description)),
    timeEstimate |-> Trim(OrElse(edited.timeEstimate, existing.timeEstimate)) ]

\* lines 812-815
hasChanges(updated, existing) ==
  \/ updated.title # existing.title
  \/ updated.description # existing.description
  \/ updated.timeEstimate # existing.timeEstimate

\* lines 818-822
Marked(updated, existing) ==
  IF hasChanges(updated, existing) THEN updated
  ELSE [updated EXCEPT !.title = <<"Updated", ":">> \o @,
                       !.description = @ \o <<NL, NL, TextReviewed>>]

\* lines 828-829
updatedTasks(tasks, specificTaskIndex, editedTaskRaw) ==
  [tasks EXCEPT ![specificTaskIndex + 1] =
     Marked(updatedTask(tasks[specificTaskIndex + 1], editedTask(editedTaskRaw)),
            tasks[specificTaskIndex + 1])]

\* lines 857-861
EditedReply(tasks, specificTaskIndex) ==
  <<ReplyEditedLead, "Task", ToString(specificTaskIndex + 1), ReplyEditedTail>>
    \o (IF checkForWebsiteTasks(tasks) THEN <<TextWebsiteUrl>> ELSE <<>>)

\* lines 837-850: the flags cleared, the tasks noted and stored
EditStored(session, tasks) ==
  storeGeneratedTasks(
    AddedRev(clearTaskEditRequest(session), Note("system", Stringify(tasks), tasks)),
    tasks)

\* lines 962-985 of generateTasks
ValidatedRev(tasksList) ==
  [i \in 1..(IF Len(tasksList) < 3 THEN Len(tasksList) ELSE 3) |->
     [ id           |-> i,
       title        |-> OrElse(Trim(tasksList[i].title), UntitledTask),
       description  |-> OrElse(Trim(tasksList[i].description), <<NoDescriptionSteps>>),
       timeEstimate |->
         IF Trim(tasksList[i].timeEstimate) = <<>>
            \/ StrLen(Trim(tasksList[i].timeEstimate)) > TimeEstimateLimit
         THEN DefaultTime ELSE Trim(tasksList[i].timeEstimate) ]]

\* lines 930-991 of generateTasks
GeneratedTasks(session, parsedData) ==
  PadTasks(ValidatedRev(OrFallback(ParsedTasks(parsedData), fallbackTasksRev(session))),
           fallbackTasksRev(session))

\* lines 1002-1018: the session after a generation that held
GenerationStored(session, tasks) ==
  storeGeneratedTasks(
    AddedRev([session EXCEPT !.tasksGenerated = TRUE, !.questionCount = 0],
             Note("system", Stringify(tasks), tasks)),
    tasks)

(***************************************************************************)
(* The turns of the later revision that handleTaskEditing answers.  The    *)
(* session starts with tasks generated and stored; no user message holds   *)
(* a URL, so processMessage analyses no website, and the request carries   *)
(* no tasks of its own.                                                    *)
(***************************************************************************)
NewSessionRev ==
  [ messages            |-> <<Note("system", <<SystemPrompt>>, <<>>)>>,
    taskType            |-> "null",
    questionCount       |-> 0,
    hasEnoughContext    |-> FALSE,
    tasksGenerated      |-> FALSE,
    taskEditRequested   |-> FALSE,
    specificTaskEditing |-> NoIndex,
    websiteData         |-> 0,
    storedTasks         |-> <<>> ]

\* the session after a first message and a generation that answered parsedData
GeneratedSession(session, parsedData) ==
  GenerationStored(session, GeneratedTasks(session, parsedData))

FirstTexts == {<<"improve", "my", "website">>, <<"plan", "my", "week">>}

StoredPayloads == {Payload("object", GoodTasks, <<>>), Payload("object", <<>>, <<>>)}

UserEdits ==
  { <<"change", "task", "2">>, <<"fix", "task", "1">>, <<"adjust", "it">>, <<"3">>,
    <<"task", "2", "should", "be", "shorter">> }

EditedRaws ==
  { EditedRaw(<<>>, <<>>, <<>>, <<>>, <<>>, <<>>),
    EditedRaw(<<"Audit", "every", "page">>, <<>>, <<>>, <<>>, <<>>, <<>>),
    EditedRaw(<<>>, <<TextMeta>>, <<>>, <<"Fix", "the", "site">>, <<>>, <<"5", "hours">>),
    EditedRaw(<<"What", "is", "your", "goal", "?">>, <<"short">>, <<>>, <<>>, <<>>, <<>>) }

RegenPayloads ==
  { Payload("object", GoodTasks, <<>>), Payload("object", AskTasks, <<>>), NonJson,
    Payload("object", SubSeq(GoodTasks, 1, 2), <<>>) }

InitEdit ==
  /\ sessions \in
       { [s \in SessionIds |->
            GeneratedSession(AddedRev(NewSessionRev, Note("user", first, <<>>)), parsedData)] :
           first \in FirstTexts, parsedData \in StoredPayloads }
  /\ turn = 0
  /\ branch = "none"
  /\ calls = <<>>
  /\ raw = NoReturn
  /\ resp = NoBody

EditPhraseWords ==
  {"edit", "update", "updated", "change", "modify", "revise", "adjust", "fix"}

\* line 472
EditDetected(session) ==
  /\ session.tasksGenerated = TRUE
  /\ \/ isTaskEditRequested(session)
     \/ \E i \in 1..Len(LastUserContent(session)) :
          LastUserContent(session)[i] \in {"1", "2", "3"}

\* lines 478-502
EditAsked(session) ==
  /\ session.tasksGenerated = TRUE
  /\ \E i \in 1..Len(LastUserContent(session)) :
       Lower(LastUserContent(session)[i]) \in EditPhraseWords

\* lines 472-519: the session handleTaskEditing is called with
EnteredEdit(session) ==
  IF EditDetected(session) THEN session ELSE clearTaskEditRequest(session)

\* line 754
HasIndex(session) ==
  getSpecificTaskToEdit(session) >= 0 /\ getSpecificTaskToEdit(session) < 3

RespondRev(session, sessionId, made, reply, tasks) ==
  /\ sessions' = Put(sessions, sessionId, session)
  /\ turn' = turn + 1
  /\ branch' = "editing"
  /\ calls' = made
  /\ raw' = Returned(reply, tasks)
  /\ resp' = Ok(ensureTasksInTasksArrayRev(Response(reply, tasks)))

\* lines 760-866: the edit call answered with an object
Edited(session, sessionId, tasks) ==
  RespondRev(EditStored(session, tasks), sessionId, <<"edit task">>,
             EditedReply(tasks, getSpecificTaskToEdit(session)), tasks)

\* lines 867-876: the edit call rejected, or its answer was no JSON
EditFailed(session, sessionId, how) ==
  RespondRev(clearTaskEditRequest(session), sessionId, <<"edit task " \o how>>,
             <<ReplyEditError>>, fallbackTasksRev(session))

\* lines 877-883 and generateTasks, its call answered
Regenerated(session, sessionId, parsedData, tasks) ==
  IF parsedData.kind = "invalid"
  THEN RespondRev(clearTaskEditRequest(session), sessionId, <<"generate unparsable">>,
                  <<ReplyGenTrouble>>, fallbackTasksRev(session))
  ELSE IF detectQuestionsInTasks(tasks)
  THEN RespondRev(clearTaskEditRequest(session), sessionId, <<"generate">>,
                  convertTasksToReply(tasks), <<>>)
  ELSE RespondRev(GenerationStored(clearTaskEditRequest(session), tasks), sessionId,
                  <<"generate">>, <<ReplyGenerated>>, tasks)

\* the session of a turn, its user message added and the edit detected
Turned(sessionId, message) ==
  EnteredEdit(AddedRev(sessions[sessionId], Note("user", message, <<>>)))

EditTurn(sessionId, message) ==
  /\ turn < MaxTurns
  /\ \/ EditDetected(AddedRev(sessions[sessionId], Note("user", message, <<>>)))
     \/ EditAsked(AddedRev(sessions[sessionId], Note("user", message, <<>>)))

EditOne(sessionId, message, editedTaskRaw) ==
  /\ EditTurn(sessionId, message)
  /\ HasIndex(Turned(sessionId, message))
  /\ Edited(Turned(sessionId, message), sessionId,
            updatedTasks(existingTasks(Turned(sessionId, message)),
                         getSpecificTaskToEdit(Turned(sessionId, message)), editedTaskRaw))

EditOneFailed(sessionId, message, how) ==
  /\ EditTurn(sessionId, message)
  /\ HasIndex(Turned(sessionId, message))
  /\ EditFailed(Turned(sessionId, message), sessionId, how)

EditAll(sessionId, message, parsedData) ==
  /\ EditTurn(sessionId, message)
  /\ ~HasIndex(Turned(sessionId, message))
  /\ Regenerated(Turned(sessionId, message), sessionId, parsedData,
                 GeneratedTasks(Turned(sessionId, message), parsedData))

EditAllFailed(sessionId, message) ==
  /\ EditTurn(sessionId, message)
  /\ ~HasIndex(Turned(sessionId, message))
  /\ RespondRev(clearTaskEditRequest(Turned(sessionId, message)), sessionId,
                <<"generate rejected">>, <<ReplyGenError>>,
                fallbackTasksRev(Turned(sessionId, message)))

NextEdit ==
  \E sessionId \in SessionIds, message \in UserEdits :
    \/ \E editedTaskRaw \in EditedRaws : EditOne(sessionId, message, editedTaskRaw)
    \/ \E how \in {"rejected", "unparsable"} : EditOneFailed(sessionId, message, how)
    \/ \E parsedData \in RegenPayloads : EditAll(sessionId, message, parsedData)
    \/ EditAllFailed(sessionId, message)

SpecEdit == InitEdit /\ [][NextEdit]_vars

\* the index the latest user message of the session names, NoIndex for none
NamedIndex(session) == IndexAfter(NewSessionRev, LowerStr(LastUserContent(session)))

EditCalls == {"edit task", "edit task rejected", "edit task unparsable"}

\* C5: a turn handleTaskEditing answers for the task at index i returns, at
\* the two other indices, the tasks stored before the turn, and at index i a
\* task that differs from the stored one; on every outcome of the edit call.
C5_OnlyTargetChanges ==
  [][\A sessionId \in SessionIds :
       (turn' = turn + 1 /\ calls'[1] \in EditCalls) =>
         \A k \in 0..2 :
           IF k = NamedIndex(sessions'[sessionId])
           THEN raw'.tasks[k + 1] # getStoredTasks(sessions[sessionId])[k + 1]
           ELSE raw'.tasks[k + 1] = getStoredTasks(sessions[sessionId])[k + 1]]_vars

(***************************************************************************)
(* Properties of the session store and of the turns of src/index.js over   *)
(* the life of a session, checked under Spec.                              *)
(***************************************************************************)
MadeCount(made, names) == Cardinality({i \in 1..Len(made) : made[i] \in names})

FollowUps == {"follow-up", "follow-up rejected"}

ToolMessages(ss, sessionId) ==
  Cardinality({i \in 1..Len(getMessages(ss, sessionId)) :
                 getMessages(ss, sessionId)[i].role = "tool"})

LastMessage(ss, sessionId) ==
  getMessages(ss, sessionId)[Len(getMessages(ss, sessionId))]

\* C13: a questioning turn runs the search tool at most once and calls the
\* model at most once after it; that call is the last of the turn, its text
\* is the reply and the closing assistant message, which carries no tool
\* request, and the turn adds at most one tool message to the transcript.
C13_OneToolRoundTrip ==
  [][\A sessionId \in SessionIds :
       (turn' = turn + 1 /\ branch' = "questioning") =>
         /\ MadeCount(calls', {"search"}) <= 1
         /\ MadeCount(calls', FollowUps) <= 1
         /\ ToolMessages(sessions', sessionId) <= ToolMessages(sessions, sessionId) + 1
         /\ \A i \in 1..Len(calls') :
              calls'[i] = "search" =>
                /\ i + 1 = Len(calls')
                /\ calls'[i + 1] \in FollowUps
                /\ raw'.reply = LastMessage(sessions', sessionId).content
                /\ LastMessage(sessions', sessionId).role = "assistant"
                /\ ~LastMessage(sessions', sessionId).tool_calls]_vars

\* the follow-up call answered with a tool request: its content is empty
C13_Witness ==
  /\ branch = "questioning"
  /\ MadeCount(calls, {"search"}) = 1 /\ MadeCount(calls, {"follow-up"}) = 1
  /\ raw.reply = <<>>

IsPrefix(before, after) ==
  Len(before) <= Len(after) /\ SubSeq(after, 1, Len(before)) = before

\* C14: while a session stays in the Map, every step leaves its transcript
\* as it was or longer, with the earlier transcript as a prefix.
C14_TranscriptOnlyGrows ==
  [][\A sessionId \in SessionIds :
       (sessionId \in DOMAIN sessions /\ sessionId \in DOMAIN sessions') =>
         IsPrefix(sessions[sessionId].messages, sessions'[sessionId].messages)]_vars

\* a session two turns have written to
C14_Witness ==
  \E sessionId \in DOMAIN sessions :
    /\ Len(UserMessages(sessions[sessionId])) >= 2
    /\ Len(sessions[sessionId].messages) >= 5

\* C15: once the first user message has set taskType, no step changes it
\* while the session stays in the Map.
C15_TaskTypeFixed ==
  [][\A sessionId \in SessionIds :
       (/\ sessionId \in DOMAIN sessions /\ sessionId \in DOMAIN sessions'
        /\ sessions[sessionId].taskType # "null") =>
         sessions'[sessionId].taskType = sessions[sessionId].taskType]_vars

\* a later user message that reads as another task type than the first
C15_Witness ==
  \E sessionId \in DOMAIN sessions :
    /\ Len(UserMessages(sessions[sessionId])) >= 2
    /\ sessions[sessionId].taskType = Classify(UserMessages(sessions[sessionId])[1].content)
    /\ Classify(LastUserMessage(sessions[sessionId])) # sessions[sessionId].taskType

\* C16: while a session stays in the Map, no step lowers its questionCount.
C16_CountNeverDecreases ==
  [][\A sessionId \in SessionIds :
       (sessionId \in DOMAIN sessions /\ sessionId \in DOMAIN sessions') =>
         sessions'[sessionId].questionCount >= sessions[sessionId].questionCount]_vars

\* C17: while a session stays in the Map, isReadyForTasks does not go from
\* true to false.
C17_ReadinessStays ==
  [][\A sessionId \in SessionIds :
       (/\ sessionId \in DOMAIN sessions /\ sessionId \in DOMAIN sessions'
        /\ isReadyForTasks(sessions, sessionId)) =>
         isReadyForTasks(sessions', sessionId)]_vars

(***************************************************************************)
(* The requests of src/index.js as Node runs them: a handler runs until it *)
(* awaits a call to the model and goes on when the call settles; other     *)
(* requests are handled in between.  Here                                  *)
(*   calls     the calls to the model in flight, in the order made; late   *)
(*             marks a generation call whose 15-second timer has fired     *)
(*   turn      the number of responses sent                                *)
(*   branch    what the last step was                                      *)
(*   raw, resp what processMessage last returned, the last response        *)
(* No user message names a task type, edits or holds a URL, so the type is *)
(* "general", no turn awaits a search or an analysis before its model      *)
(* call, and the model answers in text, without a tool request.            *)
(***************************************************************************)
MaxRequests == 3

RaceTexts == {<<"hello">>, <<"please", "generate", "tasks">>}

RaceReplies == {AskGoal, OneStep}

RacePayloads == {Payload("object", GoodTasks, <<>>), Payload("object", AskTasks, <<>>), NonJson}

\* the branch processMessage takes on the session the user message has entered
BranchOf(ss, sessionId) ==
  IF hasGeneratedTasks(ss, sessionId) THEN "continue"
  ELSE IF isReadyForTasks(ss, sessionId) THEN "generate"
  ELSE "question"

\* a call in flight; taskType is the constant processMessage read at line 486
InFlight(ss, sessionId) ==
  [ sessionId |-> sessionId, kind |-> BranchOf(ss, sessionId),
    taskType |-> getTaskType(ss, sessionId), late |-> FALSE ]

Live(made) == Cardinality({i \in 1..Len(made) : ~made[i].late})

InitRace ==
  /\ sessions = <<>>
  /\ turn = 0
  /\ branch = "none"
  /\ calls = <<>>
  /\ raw = NoReturn
  /\ resp = NoBody

\* a handler that waits until no call of its session is in flight
ReceiveInTurn(sessionId, message) ==
  /\ turn + Live(calls) < MaxRequests
  /\ \A i \in 1..Len(calls) : calls[i].sessionId # sessionId \/ calls[i].late
  /\ sessions' = Entered(sessionId, message)
  /\ calls' = Append(calls, InFlight(Entered(sessionId, message), sessionId))
  /\ branch' = "received"
  /\ UNCHANGED <<turn, raw, resp>>

\* POST /chat up to the await of the model call of its branch
Receive(sessionId, message) ==
  /\ turn + Live(calls) < MaxRequests
  /\ sessions' = Entered(sessionId, message)
  /\ calls' = Append(calls, InFlight(Entered(sessionId, message), sessionId))
  /\ branch' = "received"
  /\ UNCHANGED <<turn, raw, resp>>

\* lines 657, 740-746 and 597-606: the call of a questioning or continuing
\* turn answers with a text
TextSettles(i, content) ==
  /\ i \in 1..Len(calls)
  /\ calls[i].kind \in {"question", "continue"}
  /\ Respond(addMessage(sessions, calls[i].sessionId, Message("assistant", content)),
             IF calls[i].kind = "question" THEN "questioning" ELSE "continuing",
             Without(calls, i, 1), content, <<>>)

\* the same call rejects: nothing catches it
TextRejects(i) ==
  /\ i \in 1..Len(calls)
  /\ calls[i].kind \in {"question", "continue"}
  /\ Fail(sessions, IF calls[i].kind = "question" THEN "questioning" ELSE "continuing",
          Without(calls, i, 1))

\* lines 960-977 after the race was won by the call
AnsweredRace(ss, sessionId, validatedTasks, left) ==
  IF detectQuestionsInTasks(validatedTasks)
  THEN Respond(ss, "generation", left, convertTasksToReply(validatedTasks), <<>>)
  ELSE Respond(resetQuestionCount(markTasksGenerated(ss, sessionId), sessionId),
               "generation", left, <<ReplyGenerated>>, validatedTasks)

\* lines 866-977: the generation call settles before its timer
GenerationSettles(i, parsedData) ==
  /\ i \in 1..Len(calls)
  /\ calls[i].kind = "generate" /\ ~calls[i].late
  /\ AnsweredRace(addMessage(sessions, calls[i].sessionId,
                             Message("assistant", Stringify(CleanedTasks(parsedData)))),
                  calls[i].sessionId,
                  ValidatedTasks(Payload("object", CleanedTasks(parsedData), <<>>),
                                 getFallbackTasksByType(calls[i].taskType, FALSE)),
                  Without(calls, i, 1))

\* lines 984-988: the generation call rejects before its timer
GenerationRejects(i) ==
  /\ i \in 1..Len(calls)
  /\ calls[i].kind = "generate" /\ ~calls[i].late
  /\ Respond(sessions, "generation", Without(calls, i, 1), <<ReplySuggested>>,
             getFallbackTasksByType(calls[i].taskType, FALSE))

\* lines 858-862, 984-988: the timer fires first; the call stays in flight
TimerFires(i) ==
  /\ i \in 1..Len(calls)
  /\ calls[i].kind = "generate" /\ ~calls[i].late
  /\ Respond(sessions, "timed out", [calls EXCEPT ![i].late = TRUE], <<ReplySuggested>>,
             getFallbackTasksByType(calls[i].taskType, FALSE))

\* the result of the call is taken up although its timer has fired
LateResultKept(i, parsedData) ==
  /\ i \in 1..Len(calls)
  /\ calls[i].late
  /\ sessions' = markTasksGenerated(
                   addMessage(sessions, calls[i].sessionId,
                              Message("assistant", Stringify(CleanedTasks(parsedData)))),
                   calls[i].sessionId)
  /\ calls' = Without(calls, i, 1)
  /\ branch' = "late result"
  /\ UNCHANGED <<turn, raw, resp>>

\* lines 849-862: chatPromise settles after the race is over; no code waits
\* for it
LateResult(i, parsedData) ==
  /\ i \in 1..Len(calls)
  /\ calls[i].late
  /\ calls' = Without(calls, i, 1)
  /\ branch' = "late result"
  /\ UNCHANGED <<sessions, turn, raw, resp>>

\* DELETE /chat/:sessionId
DeleteRace(sessionId) ==
  /\ turn + Live(calls) < MaxRequests
  /\ sessions' = clearSession(sessions, sessionId)
  /\ turn' = turn + 1
  /\ branch' = "cleared"
  /\ resp' = Failed(200)
  /\ UNCHANGED <<calls, raw>>

NextRace ==
  \/ \E sessionId \in SessionIds, message \in RaceTexts : Receive(sessionId, message)
  \/ \E i \in 1..MaxRequests, content \in RaceReplies : TextSettles(i, content)
  \/ \E i \in 1..MaxRequests : TextRejects(i)
  \/ \E i \in 1..MaxRequests, parsedData \in RacePayloads : GenerationSettles(i, parsedData)
  \/ \E i \in 1..MaxRequests : GenerationRejects(i)
  \/ \E i \in 1..MaxRequests : TimerFires(i)
  \/ \E i \in 1..MaxRequests, parsedData \in RacePayloads : LateResult(i, parsedData)
  \/ \E sessionId \in SessionIds : DeleteRace(sessionId)

SpecRace == InitRace /\ [][NextRace]_vars

\* the sessions a first POST /chat leaves in the Map before its call settles
FreshlyEntered == {Added(NewSession, Message("user", message)) : message \in RaceTexts}

\* C11: DELETE /chat/:id leaves no session for the id, and the id has none
\* until a POST /chat creates one: a session enters the Map only as the
\* freshly created session (the system prompt alone, taskType null,
\* questionCount 0, tasksGenerated false) with that request's message added.
C11_ClearedIsNeverSeen ==
  [][\A sessionId \in SessionIds :
       /\ (branch' = "cleared" /\ turn' = turn + 1) => sessionId \notin DOMAIN sessions'
       /\ (sessionId \notin DOMAIN sessions /\ sessionId \in DOMAIN sessions') =>
            sessions'[sessionId] \in FreshlyEntered]_vars

\* C12: when the timer of a generation call fires first, the turn returns
\* the three fallback tasks of the task type and leaves the session alone;
\* when the call settles afterwards nothing but the call itself goes: the
\* sessions, the value returned and the response stay as they are.
C12_TimeoutDiscardsResult ==
  [][/\ (branch' = "timed out" /\ turn' = turn + 1) =>
          /\ \E i \in 1..Len(calls) :
               /\ calls' = [calls EXCEPT ![i].late = TRUE]
               /\ raw'.tasks = getFallbackTasksByType(calls[i].taskType, FALSE)
          /\ Len(raw'.tasks) = 3
          /\ resp'.status = 200 /\ resp'.tasks = raw'.tasks
          /\ sessions' = sessions
     /\ (Len(calls') < Len(calls) /\ Live(calls') = Live(calls)) =>
          /\ sessions' = sessions
          /\ raw' = raw
          /\ resp' = resp]_vars

\* a call settled after its timer had fired and its turn had answered
C12_Witness == branch = "late result" /\ turn >= 1

(***************************************************************************)
(* The whole of processMessage of the later revision                       *)
(* (src/unnamed/part_003, lines 403-682), as Node runs it: a request that  *)
(* has a website to analyse waits for analyzeWebsiteForTasks, and other    *)
(* requests are handled meanwhile; from there on a request runs to its     *)
(* response in one step.  Here                                             *)
(*   calls     the requests waiting for their analysis, each with its      *)
(*             number and the latest user message processMessage read      *)
(*   turn      the number of responses sent                                *)
(*   branch    the branch the last response came from                      *)
(* websiteData holds the number of the request whose analysis result was   *)
(* stored, 0 for null.  The model answers a question in text, without a    *)
(* tool request.                                                           *)
(***************************************************************************)
getSessionRev(ss, sessionId) == IF sessionId \in DOMAIN ss THEN ss[sessionId] ELSE NewSessionRev

\* lines 249-252 of the session store
storeWebsiteData(session, data) == [session EXCEPT !.websiteData = data]

getWebsiteData(session) == session.websiteData

\* lines 413-427: a website session with a URL in its user messages and no
\* analysis stored
NeedsAnalysis(session) ==
  /\ session.taskType = "website"
  /\ \E i \in 1..Len(session.messages) :
       session.messages[i].role = "user" /\ HasWord(session.messages[i].content, {UrlTok})
  /\ getWebsiteData(session) = 0

NewTaskPhrases ==
  { <<"new", "project">>, <<"different", "tasks">>, <<"new", "topic">>, <<"start", "over">>,
    <<"restart">>, <<"another", "set">>, <<"different", "set">>,
    <<"try", "something", "else">>, <<"instead">>, <<"forget", "that">> }

\* lines 482-486, 523-525
isAskingForNewTasks(lastUserMessage) ==
  \E phrase \in NewTaskPhrases : Includes(LowerStr(lastUserMessage), phrase)

\* line 472, on the user messages the request read
EditDetectedAt(session, lastUserMessage) ==
  /\ session.tasksGenerated = TRUE
  /\ \/ isTaskEditRequested(session)
     \/ \E i \in 1..Len(lastUserMessage) : lastUserMessage[i] \in {"1", "2", "3"}

\* lines 489-502
EditAskedAt(session, lastUserMessage) ==
  /\ session.tasksGenerated = TRUE
  /\ \E i \in 1..Len(lastUserMessage) : Lower(lastUserMessage[i]) \in EditPhraseWords

\* what a call to the model gave: it rejected, or answered a text, or a text
\* that parses to parsedData or does not parse, or the edited task
Answer(kind, content, parsedData, editedTaskRaw) ==
  [kind |-> kind, content |-> content, parsedData |-> parsedData,
   editedTaskRaw |-> editedTaskRaw]

RevReplies == {AskGoal, OneStep}

RevPayloads == {Payload("object", GoodTasks, <<>>), Payload("object", AskTasks, <<>>), NonJson}

RevEdits ==
  { EditedRaw(<<"Audit", "every", "page">>, <<>>, <<>>, <<>>, <<>>, <<>>),
    EditedRaw(<<>>, <<>>, <<>>, <<>>, <<>>, <<>>) }

Answers ==
  {Answer("rejected", <<>>, NonJson, EditedRaw(<<>>, <<>>, <<>>, <<>>, <<>>, <<>>))}
    \union {Answer("text", content, NonJson, EditedRaw(<<>>, <<>>, <<>>, <<>>, <<>>, <<>>)) :
              content \in RevReplies}
    \union {Answer("payload", <<>>, parsedData, EditedRaw(<<>>, <<>>, <<>>, <<>>, <<>>, <<>>)) :
              parsedData \in RevPayloads}
    \union {Answer("edited", <<>>, NonJson, editedTaskRaw) : editedTaskRaw \in RevEdits}

\* what processMessage leaves: the session, the branch, and what it returns
Outcome(session, taken, reply, tasks) ==
  [session |-> session, taken |-> taken, reply |-> reply, tasks |-> tasks]

\* lines 993-1024 of generateTasks
GeneratedOutcome(session, tasks) ==
  IF detectQuestionsInTasks(tasks)
  THEN Outcome(session, "asked", convertTasksToReply(tasks), <<>>)
  ELSE Outcome(GenerationStored(session, tasks), "generated", <<ReplyGenerated>>, tasks)

\* lines 897-1041
generateTasks(session, answer) ==
  IF answer.kind = "rejected"
  THEN Outcome(session, "generation failed", <<ReplyGenError>>, fallbackTasksRev(session))
  ELSE IF answer.parsedData.kind = "invalid"
  THEN Outcome(session, "generation failed", <<ReplyGenTrouble>>, fallbackTasksRev(session))
  ELSE GeneratedOutcome(session, GeneratedTasks(session, answer.parsedData))

\* lines 832-866
EditedOutcome(session, tasks) ==
  Outcome(EditStored(session, tasks), "edited",
          EditedReply(tasks, getSpecificTaskToEdit(session)), tasks)

\* lines 685-894
handleTaskEditing(session, answer) ==
  IF HasIndex(session)
  THEN IF answer.kind = "edited"
       THEN EditedOutcome(session,
                          updatedTasks(existingTasks(session), getSpecificTaskToEdit(session),
                                       answer.editedTaskRaw))
       ELSE Outcome(clearTaskEditRequest(session), "edit failed", <<ReplyEditError>>,
                    fallbackTasksRev(session))
  ELSE generateTasks(clearTaskEditRequest(session), answer)

ReplyContinueError ==
  "I'm sorry, I had trouble processing that. How can I help you with your current tasks?"

ReplyQuestionError ==
  <<"I'm having a little trouble processing that.", "Could", "you", "tell", "me", "more",
    "about", "what", "you're", "looking", "to", "accomplish", "?">>

\* lines 533-557
Continuation(session, answer) ==
  IF answer.kind = "rejected"
  THEN Outcome(session, "continuing", <<ReplyContinueError>>, <<>>)
  ELSE Outcome(AddedRev(session, Note("assistant", answer.content, <<>>)), "continuing",
               answer.content, <<>>)

\* lines 561-682
QuestionOrGenerate(session, answer) ==
  IF session.hasEnoughContext THEN generateTasks(session, answer)
  ELSE IF answer.kind = "rejected"
  THEN Outcome(AddedRev(session, Note("assistant", ReplyQuestionError, <<>>)), "questioning",
               ReplyQuestionError, <<>>)
  ELSE Outcome(AddedRev(session, Note("assistant", answer.content, <<>>)), "questioning",
               answer.content, <<>>)

\* lines 527-531: resetQuestionCount and clearTaskEditRequest
Restarted(session) == clearTaskEditRequest([session EXCEPT !.questionCount = 0])

\* lines 471-682: processMessage from the edit dispatch on
Dispatched(session, lastUserMessage, answer) ==
  IF EditDetectedAt(session, lastUserMessage) THEN handleTaskEditing(session, answer)
  ELSE IF EditAskedAt(session, lastUserMessage)
  THEN handleTaskEditing(clearTaskEditRequest(session), answer)
  ELSE IF session.tasksGenerated = TRUE /\ ~isAskingForNewTasks(lastUserMessage)
  THEN Continuation(session, answer)
  ELSE IF session.tasksGenerated = TRUE THEN QuestionOrGenerate(Restarted(session), answer)
  ELSE QuestionOrGenerate(session, answer)

\* the kind of answer the call of the branch gives when it does not reject
AnswerKind(session, lastUserMessage) ==
  IF EditDetectedAt(session, lastUserMessage)
  THEN IF HasIndex(session) THEN "edited" ELSE "payload"
  ELSE IF EditAskedAt(session, lastUserMessage) THEN "payload"
  ELSE IF session.tasksGenerated = TRUE /\ ~isAskingForNewTasks(lastUserMessage) THEN "text"
  ELSE IF session.hasEnoughContext THEN "payload"
  ELSE "text"

Fits(session, lastUserMessage, answer) ==
  answer.kind \in {"rejected", AnswerKind(session, lastUserMessage)}

RevTexts ==
  { <<"improve", UrlTok>>, <<"create", "a", "plan">>, <<"start", "over">>,
    <<"fix", "task", "1">> }

TextAnalysed == "I've analyzed the website https://example.com. Here's what I found:"

\* a request waiting for its analysis
Waiting(sessionId, request, lastUserMessage) ==
  [sessionId |-> sessionId, request |-> request, lastUserMessage |-> lastUserMessage]

InitRev ==
  /\ sessions = <<>>
  /\ turn = 0
  /\ branch = "none"
  /\ calls = <<>>
  /\ raw = NoReturn
  /\ resp = NoBody

\* lines 370-380 of the route: processMessage returned, the assembler runs
Deliver(sessionId, outcome, left) ==
  /\ sessions' = Put(sessions, sessionId, outcome.session)
  /\ turn' = turn + 1
  /\ branch' = outcome.taken
  /\ calls' = left
  /\ raw' = Returned(outcome.reply, outcome.tasks)
  /\ resp' = Ok(ensureTasksInTasksArrayRev(Response(outcome.reply, outcome.tasks)))

EnteredRev(sessionId, message) ==
  AddedRev(getSessionRev(sessions, sessionId), Note("user", message, <<>>))

\* POST /chat for a session with a website to analyse, up to the await of
\* line 450
Suspend(sessionId, message) ==
  /\ turn + Len(calls) < MaxRequests
  /\ NeedsAnalysis(EnteredRev(sessionId, message))
  /\ sessions' = Put(sessions, sessionId, EnteredRev(sessionId, message))
  /\ calls' = Append(calls, Waiting(sessionId, turn + Len(calls) + 1, message))
  /\ branch' = "analysing"
  /\ UNCHANGED <<turn, raw, resp>>

\* POST /chat for a session with nothing to analyse
Direct(sessionId, message, answer) ==
  /\ turn + Len(calls) < MaxRequests
  /\ ~NeedsAnalysis(EnteredRev(sessionId, message))
  /\ Fits(EnteredRev(sessionId, message), message, answer)
  /\ Deliver(sessionId, Dispatched(EnteredRev(sessionId, message), message, answer), calls)

\* lines 452-464: the result is stored and a summary joins the transcript
Analysed(session, request) ==
  AddedRev(storeWebsiteData(session, request), Note("system", <<TextAnalysed>>, <<>>))

\* the analysis of a waiting request succeeds and the request goes on
AnalysisDone(i, answer) ==
  /\ i \in 1..Len(calls)
  /\ Fits(Analysed(getSessionRev(sessions, calls[i].sessionId), calls[i].request),
          calls[i].lastUserMessage, answer)
  /\ Deliver(calls[i].sessionId,
             Dispatched(Analysed(getSessionRev(sessions, calls[i].sessionId), calls[i].request),
                        calls[i].lastUserMessage, answer),
             Without(calls, i, 1))

\* lines 465-467: the analysis fails or throws; the request goes on
AnalysisFailed(i, answer) ==
  /\ i \in 1..Len(calls)
  /\ Fits(getSessionRev(sessions, calls[i].sessionId), calls[i].lastUserMessage, answer)
  /\ Deliver(calls[i].sessionId,
             Dispatched(getSessionRev(sessions, calls[i].sessionId),
                        calls[i].lastUserMessage, answer),
             Without(calls, i, 1))

\* DELETE /chat/:sessionId
DeleteRev(sessionId) ==
  /\ turn + Len(calls) < MaxRequests
  /\ sessions' = clearSession(sessions, sessionId)
  /\ turn' = turn + 1
  /\ branch' = "cleared"
  /\ resp' = Failed(200)
  /\ UNCHANGED <<calls, raw>>

NextRev ==
  \/ \E sessionId \in SessionIds, message \in RevTexts : Suspend(sessionId, message)
  \/ \E sessionId \in SessionIds, message \in RevTexts, answer \in Answers :
       Direct(sessionId, message, answer)
  \/ \E i \in 1..MaxRequests, answer \in Answers : AnalysisDone(i, answer)
  \/ \E i \in 1..MaxRequests, answer \in Answers : AnalysisFailed(i, answer)
  \/ \E sessionId \in SessionIds : DeleteRev(sessionId)

SpecRev == InitRev /\ [][NextRev]_vars

\* the session is in the Map before and after the step
Kept(sessionId) == sessionId \in DOMAIN sessions /\ sessionId \in DOMAIN sessions'

\* a request that waited for nothing was answered in this step, and its
\* message is the latest user message of the session
AnsweredDirect(sessionId) ==
  /\ Kept(sessionId)
  /\ turn' = turn + 1 /\ calls' = calls
  /\ Len(UserMessages(sessions'[sessionId])) = Len(UserMessages(sessions[sessionId])) + 1

\* C18: a turn that finds tasks generated and a start-over phrase in the
\* latest user message, and no edit asked, leaves the edit request cleared
\* and, unless its generation succeeded, hasGeneratedTasks false.
C18_RestartClearsGenerated ==
  [][\A sessionId \in SessionIds :
       (/\ AnsweredDirect(sessionId)
        /\ sessions[sessionId].tasksGenerated = TRUE
        /\ isAskingForNewTasks(LastUserContent(sessions'[sessionId]))
        /\ branch' \in {"generated", "asked", "generation failed", "questioning"}) =>
         /\ ~isTaskEditRequested(sessions'[sessionId])
         /\ branch' # "generated" => sessions'[sessionId].tasksGenerated # TRUE]_vars

\* C19: when generateTasks returns tasks it generated, the session holds
\* those three tasks as its stored tasks, tasksGenerated is true,
\* questionCount is 0 and the hasEnoughContext flag is false.
C19_GenerationResetsSession ==
  [][\A sessionId \in SessionIds :
       (turn' = turn + 1 /\ branch' = "generated") =>
         /\ Len(raw'.tasks) = 3
         /\ getStoredTasks(sessions'[sessionId]) = raw'.tasks
         /\ sessions'[sessionId].tasksGenerated = TRUE
         /\ sessions'[sessionId].questionCount = 0
         /\ sessions'[sessionId].hasEnoughContext = FALSE]_vars

\* C20: once a session holds website data, no step writes it again while
\* the session stays in the Map.
C20_WebsiteDataStoredOnce ==
  [][\A sessionId \in SessionIds :
       (Kept(sessionId) /\ getWebsiteData(sessions[sessionId]) # 0) =>
         getWebsiteData(sessions'[sessionId]) = getWebsiteData(sessions[sessionId])]_vars

(***************************************************************************)
(* Overlapping turns of one session (src/index.js, lines 399-404 and the   *)
(* awaits of processMessage), checked under SpecRace.                      *)
(***************************************************************************)
\* the roles of the transcript of a session, in order
Roles(ss, sessionId) ==
  [k \in 1..Len(ss[sessionId].messages) |-> ss[sessionId].messages[k].role]

\* C21: turns of one session are not serialized.  While a call of a session
\* is in flight and its turn has not answered, a further POST /chat for the
\* same session is taken up at once, and it appends its user message to the
\* transcript directly, before the assistant reply of the waiting turn.
C21_TurnsNotSerialized ==
  \A i \in 1..Len(calls), message \in RaceTexts :
    (~calls[i].late /\ turn + Live(calls) < MaxRequests) =>
      ENABLED (/\ Receive(calls[i].sessionId, message)
               /\ LastMessage(sessions', calls[i].sessionId) = Message("user", message)
               /\ Len(calls') = Len(calls) + 1)

\* two turns of one session wait for the model, and the transcript holds
\* both user messages and neither assistant reply
C21_Witness ==
  \E sessionId \in DOMAIN sessions :
    /\ Cardinality({i \in 1..Len(calls) :
                      calls[i].sessionId = sessionId /\ ~calls[i].late}) = 2
    /\ Roles(sessions, sessionId) = <<"system", "user", "user">>

(***************************************************************************)
(* Properties of the edit turns of the later revision, checked under       *)
(* SpecEdit.                                                               *)
(***************************************************************************)
\* /\b(task\s*)?([1-3])\b/: the number the first match holds, 0 without a match
Ordinal(content) ==
  IF \E i \in 1..Len(content) : content[i] \in {"1", "2", "3"}
  THEN NumVal[content[MinOr0({i \in 1..Len(content) : content[i] \in {"1", "2", "3"}})]]
  ELSE 0

\* the sessions whose turn the step is
Turning(ss, after) == {sessionId \in SessionIds : after[sessionId] # ss[sessionId]}

\* C22: once tasks exist, a turn whose user message carries an ordinal 1 to 3
\* makes one call, the edit call for the task at index ordinal - 1, and
\* returns the stored tasks unchanged at the two other indices.
C22_OrdinalTargetsOneTask ==
  [][\A sessionId \in Turning(sessions, sessions') :
       (turn' = turn + 1 /\ Ordinal(LastUserContent(sessions'[sessionId])) > 0) =>
         /\ calls'[1] \in EditCalls
         /\ \A k \in 0..2 :
              k # Ordinal(LastUserContent(sessions'[sessionId])) - 1 =>
                raw'.tasks[k + 1] = getStoredTasks(sessions[sessionId])[k + 1]]_vars

\* the ids of the stored tasks of a session, by position
StoredIds(session) ==
  [k \in 1..Len(getStoredTasks(session)) |-> getStoredTasks(session)[k].id]

\* C23: a turn handleTaskEditing answers leaves the id at each position of
\* the stored tasks as it was, and every id is an integer from 1 on.
C23_IdsStayInPlace ==
  [][\A sessionId \in SessionIds :
       turn' = turn + 1 =>
         /\ StoredIds(sessions'[sessionId]) = StoredIds(sessions[sessionId])
         /\ \A k \in 1..Len(StoredIds(sessions'[sessionId])) :
              StoredIds(sessions'[sessionId])[k] \in Nat \ {0}]_vars

(***************************************************************************)
(* The continuing branch of the later revision (src/unnamed/part_003,      *)
(* lines 532-558), checked under SpecRev.                                  *)
(***************************************************************************)
AssistantMessages(session) ==
  Cardinality({k \in 1..Len(session.messages) : session.messages[k].role = "assistant"})

\* C24: a turn the continuing branch answers leaves the stored tasks,
\* tasksGenerated, the task type and the edit request of the session as they
\* were, adds exactly one assistant message to the transcript, and returns
\* an empty tasks array.
C24_ContinuingLeavesTasks ==
  [][\A sessionId \in SessionIds :
       (AnsweredDirect(sessionId) /\ branch' = "continuing") =>
         /\ getStoredTasks(sessions'[sessionId]) = getStoredTasks(sessions[sessionId])
         /\ sessions'[sessionId].tasksGenerated = sessions[sessionId].tasksGenerated
         /\ sessions'[sessionId].taskType = sessions[sessionId].taskType
         /\ isTaskEditRequested(sessions'[sessionId]) = isTaskEditRequested(sessions[sessionId])
         /\ getSpecificTaskToEdit(sessions'[sessionId]) = getSpecificTaskToEdit(sessions[sessionId])
         /\ AssistantMessages(sessions'[sessionId]) = AssistantMessages(sessions[sessionId]) + 1
         /\ raw'.hasTasks /\ raw'.tasks = <<>>]_vars

(***************************************************************************)
(* addMessage of the session store on its own (src/unnamed/part_006, lines *)
(* 291-348), called with any message, also one whose content is null or    *)
(* undefined.  Here null is not the empty string: a message handed in says *)
(* in absent whether it has a content.  Here                               *)
(*   turn      the number of calls of addMessage made                      *)
(*   raw       the message of the last call and its session id             *)
(*   branch    whether the last call returned ("stored") or threw          *)
(***************************************************************************)
MaxAdds == 2

HandedIn(sessionId, role, content, absent, tool_calls) ==
  [ sessionId |-> sessionId, role |-> role, content |-> content, absent |-> absent,
    tool_calls |-> tool_calls ]

StoreContents == {<<>>, AskGoal, <<"improve", "my", "website">>}

StoreMessages ==
  {HandedIn(sessionId, role, content, FALSE, FALSE) :
     sessionId \in SessionIds, role \in {"user", "assistant", "system", "tool"},
     content \in StoreContents}
    \union {HandedIn(sessionId, role, <<>>, TRUE, role = "assistant") :
              sessionId \in SessionIds, role \in {"user", "assistant", "system", "tool"}}

\* lines 295-306: the copy that is pushed, its content "" when none was given
validatedMessage(message) ==
  [ role |-> message.role, content |-> IF message.absent THEN <<>> ELSE message.content,
    tool_calls |-> message.tool_calls ]

\* lines 309-310 and 333-336: message.content.toLowerCase() for a user
\* message of a session without task type, message.content.endsWith("?")
\* for an assistant message; a TypeError when the content is null or undefined
ContentRead(session, message) ==
  \/ session.taskType = "null" /\ message.role = "user"
  \/ message.role = "assistant"

ThrowsTypeError(session, message) == message.absent /\ ContentRead(session, message)

InitStore ==
  /\ sessions = <<>>
  /\ turn = 0
  /\ branch = "none"
  /\ calls = <<>>
  /\ raw = HandedIn("s1", "system", <<SystemPrompt>>, FALSE, FALSE)
  /\ resp = NoBody

\* addMessage returns: line 346 has pushed the validated message
AddStored(message) ==
  /\ turn < MaxAdds
  /\ ~ThrowsTypeError(getSession(sessions, message.sessionId), message)
  /\ sessions' = addMessage(sessions, message.sessionId, validatedMessage(message))
  /\ turn' = turn + 1
  /\ branch' = "stored"
  /\ raw' = message
  /\ UNCHANGED <<calls, resp>>

\* addMessage throws: getSession (line 292) has run, the push has not
AddThrows(message) ==
  /\ turn < MaxAdds
  /\ ThrowsTypeError(getSession(sessions, message.sessionId), message)
  /\ sessions' = Put(sessions, message.sessionId, getSession(sessions, message.sessionId))
  /\ turn' = turn + 1
  /\ branch' = "threw"
  /\ raw' = message
  /\ UNCHANGED <<calls, resp>>

NextStore ==
  \/ \E message \in StoreMessages : AddStored(message)
  \/ \E message \in StoreMessages : AddThrows(message)

SpecStore == InitStore /\ [][NextStore]_vars

\* C25: a call of addMessage with a message whose content is null or
\* undefined adds one message to the transcript of the session, of the
\* role given and with the content "".
C25_NullContentStoredEmpty ==
  [][(turn' = turn + 1 /\ raw'.absent) =>
       /\ Len(getMessages(sessions', raw'.sessionId))
            = Len(getMessages(sessions, raw'.sessionId)) + 1
       /\ LastMessage(sessions', raw'.sessionId).role = raw'.role
       /\ LastMessage(sessions', raw'.sessionId).content = <<>>]_vars

(***************************************************************************)
(* The functions of src/index.js that read no session: the classifier      *)
(* detectQuestionsInTasks, the catalog getFallbackTasksByType, the         *)
(* validation of generated tasks, and extractTasksFromReply; the catalog   *)
(* and the validation also as the later revision has them.  Here           *)
(*   calls     the calls made so far, in order: the function, its          *)
(*             argument and what it returned                               *)
(*   turn      the number of calls made                                    *)
(*   branch    the function called last                                    *)
(***************************************************************************)
MaxCalls == 2

FnCall(fn, arg, result) == [fn |-> fn, arg |-> arg, result |-> result]

\* one question among two tasks, the descriptions long
OneAskLong == [GoodTasks EXCEPT ![1].title = <<"Which", "pages", "matter", "?">>]

\* the same with every description short
OneAskThin == [i \in 1..3 |-> [OneAskLong[i] EXCEPT !.description = <<"short">>]]

\* one question and no title or description of the task kind
OneAskPlain ==
  << MkTask(<<"Which", "pages", "matter", "?">>, <<TextCrawl>>, <<"1", "hour">>),
     MkTask(<<"Audit", "the", "site">>, <<TextCrawl>>, <<"2", "hours">>),
     MkTask(<<"Review", "the", "plan">>, <<TextMeta>>, <<"3", "hours">>) >>

DetectLists ==
  { <<>>, GoodTasks, AskTasks, VagueTasks, GappyTasks, OneAskLong, OneAskThin, OneAskPlain,
    SubSeq(OneAskLong, 1, 2) }

TaskTypes == {"website", "business", "education", "personal", "general", "null", "finance"}

FourTasks ==
  GoodTasks \o <<MkTask(<<"Review", "the", "plan">>, <<TextMeta>>, <<"2", "hours">>)>>

\* what the model answers a generation call: four, three, two tasks, one task
GenPayloads ==
  { Payload("object", FourTasks, <<>>), Payload("object", GoodTasks, <<>>),
    Payload("object", SubSeq(GoodTasks, 1, 2), <<>>),
    Payload("object", SubSeq(GoodTasks, 1, 1), <<>>) }

GenTypes == {"website", "general"}

SectionReply ==
  <<"Task", "1", ":", "Audit", "the", "site", NL, TextCrawl, NL,
    "Task", "2", ":", TextMeta, NL, TextSpeed>>

LabelReply == <<MdTitle, "Audit", "the", "site", NL, MdDesc, TextCrawl, NL, MdTime, "2", "hours">>

LongLabelReply == <<MdTitle, TextCrawl, NL, MdDesc, TextMeta>>

LongListReply == <<"1", ".", TextCrawl, NL, TextMeta, NL, "2", ".", "Create", "meta", "text">>

ExtractReplies ==
  { <<>>, AskGoal, OneStep, ThreeSteps, AskList, SectionReply, LabelReply, LongLabelReply,
    LongListReply }

InitFn ==
  /\ sessions = <<>>
  /\ turn = 0
  /\ branch = "none"
  /\ calls = <<>>
  /\ raw = NoReturn
  /\ resp = NoBody

Called(fn, arg, result) ==
  /\ calls' = Append(calls, FnCall(fn, arg, result))
  /\ turn' = turn + 1
  /\ branch' = fn
  /\ UNCHANGED <<sessions, raw, resp>>

\* the classifier whose patterns kept their place from the call before (the
\* g flag on patterns that outlive the call): after a call that found a
\* questionnaire the next one finds none
DetectedAfterMatch(tasks) ==
  /\ detectQuestionsInTasks(tasks)
  /\ ~(/\ calls # <<>>
       /\ calls[Len(calls)].fn = "detect"
       /\ calls[Len(calls)].result = TRUE)

\* detectQuestionsInTasks(tasks) called in the state the program is in: the
\* patterns are built anew inside every call and carry no g flag, and no
\* variable outside the function is read
Detected(tasks) == detectQuestionsInTasks(tasks)

Detect(tasks) ==
  /\ turn < MaxCalls
  /\ Called("detect", tasks, Detected(tasks))

Catalog(taskType, rev) ==
  /\ turn < MaxCalls
  /\ Called("catalog", [taskType |-> taskType, rev |-> rev],
            getFallbackTasksByType(taskType, rev))

\* the tasks a generation surfaces: lines 867-958 of src/index.js, and
\* lines 930-991 of generateTasks in the later revision
Surfaced(parsedData, taskType, rev) ==
  IF rev THEN GeneratedTasks([NewSessionRev EXCEPT !.taskType = taskType], parsedData)
  ELSE ValidatedTasks(Payload("object", CleanedTasks(parsedData), <<>>),
                      getFallbackTasksByType(taskType, FALSE))

Generate(parsedData, taskType, rev) ==
  /\ turn < MaxCalls
  /\ Called("generate", [tasks |-> parsedData.tasks, taskType |-> taskType, rev |-> rev],
            Surfaced(parsedData, taskType, rev))

Extract(reply) ==
  /\ turn < MaxCalls
  /\ Called("extract", reply, extractTasksFromReply(reply))

\* the replies of the turns that fall back (src/index.js, lines 584-587
\* and 984-988)
FallbackReplies == {<<ReplySuggested>>, <<ReplyTrouble>>}

\* lines 984-988 and 403-409: a turn that failed returns the catalog of the
\* task type, and the route hands it to ensureTasksInTasksArray
FellBack(taskType, reply) ==
  /\ turn < MaxCalls
  /\ Called("fallback",
            [taskType |-> taskType, reply |-> reply,
             tasks |-> getFallbackTasksByType(taskType, FALSE)],
            ensureTasksInTasksArray(
              Response(reply, getFallbackTasksByType(taskType, FALSE))))

NextFn ==
  \/ \E tasks \in DetectLists : Detect(tasks)
  \/ \E taskType \in TaskTypes, rev \in BOOLEAN : Catalog(taskType, rev)
  \/ \E parsedData \in GenPayloads, taskType \in GenTypes, rev \in BOOLEAN :
       Generate(parsedData, taskType, rev)
  \/ \E reply \in ExtractReplies : Extract(reply)
  \/ \E taskType \in TaskTypes, reply \in FallbackReplies : FellBack(taskType, reply)

SpecFn == InitFn /\ [][NextFn]_vars

WellFormed(task) ==
  task.title # <<>> /\ task.description # <<>> /\ task.timeEstimate # <<>>

\* C27: getFallbackTasksByType returns three tasks, each with a title, a
\* description and a time estimate, for every argument; for "general", for
\* null and for a type it does not know the three are the general list.
C27_CatalogAlwaysThree ==
  \A i \in 1..Len(calls) :
    calls[i].fn = "catalog" =>
      /\ Len(calls[i].result) = 3
      /\ \A k \in 1..Len(calls[i].result) : WellFormed(calls[i].result[k])
      /\ calls[i].arg.taskType \in {"general", "null", "finance"} =>
           calls[i].result = CatalogGeneral(calls[i].arg.rev)

\* the catalog was asked for a type it does not know and for null
C27_Witness ==
  /\ Len(calls) = 2
  /\ calls[1].fn = "catalog" /\ calls[1].arg.taskType = "finance"
  /\ calls[2].fn = "catalog" /\ calls[2].arg.taskType = "null"
  /\ Len(calls[1].result) = 3 /\ calls[2].result = CatalogGeneral(calls[2].arg.rev)

SameTask(a, b) ==
  a.title = b.title /\ a.description = b.description /\ a.timeEstimate = b.timeEstimate

\* C28: of k well-formed tasks the model returned, a generation surfaces
\* the first three when k > 3; when 0 < k < 3 it surfaces the k tasks in
\* order and, at each position behind them, the catalog entry of that
\* position.
C28_TruncatedOrPadded ==
  \A i \in 1..Len(calls) :
    calls[i].fn = "generate" =>
      /\ Len(calls[i].result) = 3
      /\ Len(calls[i].arg.tasks) # 3 =>
           \A p \in 1..3 :
             IF p <= Len(calls[i].arg.tasks)
             THEN SameTask(calls[i].result[p], calls[i].arg.tasks[p])
             ELSE SameTask(calls[i].result[p],
                           getFallbackTasksByType(calls[i].arg.taskType, calls[i].arg.rev)[p])

\* the rule as the specification words it, on the three counts
Questionnaire(n, q, u, t, thin) ==
  /\ n > 0
  /\ \/ q + u > t
     \/ 2 * (q + u) >= n
     \/ thin /\ q + u > 0

\* C29: detectQuestionsInTasks returns true exactly when the list is not
\* empty and, with q titles that match a question pattern, u titles that
\* address the user over a description under 20 characters and t tasks that
\* match a task pattern: q + u > t, or q + u >= ceil(n / 2), or every
\* description is under 30 characters and q + u > 0.
C29_ThreeWayRule ==
  \A i \in 1..Len(calls) :
    calls[i].fn = "detect" =>
      calls[i].result =
        Questionnaire(Len(calls[i].arg), CountOf(calls[i].arg, IsQuestionTask),
                      CountOf(calls[i].arg, UserQuery), CountOf(calls[i].arg, IsActionTask),
                      \A k \in 1..Len(calls[i].arg) : IsThinTask(calls[i].arg[k]))

\* the classifier was called with three tasks and one question indicator
\* that does not outnumber the tasks: once with long descriptions (false),
\* once with short ones (true)
C29_Witness ==
  /\ Len(calls) = 2
  /\ calls[1].fn = "detect" /\ calls[1].arg = OneAskLong /\ calls[1].result = FALSE
  /\ calls[2].fn = "detect" /\ calls[2].arg = OneAskThin /\ calls[2].result = TRUE

\* C30: every task extractTasksFromReply returns has a title that is not
\* empty and at most 50 characters long.
C30_TitlesWithinLimit ==
  \A i \in 1..Len(calls) :
    calls[i].fn = "extract" =>
      \A k \in 1..Len(calls[i].result) :
        /\ calls[i].result[k].title # <<>>
        /\ StrLen(calls[i].result[k].title) <= TitleLimit

(***************************************************************************)
(* Properties of the turns of src/index.js that span more than one turn,   *)
(* checked under Spec.                                                     *)
(***************************************************************************)
\* C31: after a turn whose response carries a non-empty tasks list,
\* hasGeneratedTasks is true for the session, so that the next message is
\* taken by the branches for a session with tasks.
C31_TasksSentAreGenerated ==
  [][\A sessionId \in SessionIds :
       (/\ turn' = turn + 1 /\ resp'.status = 200 /\ resp'.tasks # <<>>
        /\ sessionId \in DOMAIN sessions') =>
         hasGeneratedTasks(sessions', sessionId)]_vars

(***************************************************************************)
(* Properties of the turns of the later revision over the life of a        *)
(* session, checked under SpecRev.                                         *)
(***************************************************************************)
\* a request that waited for nothing was answered in this step
TurnedDirect(sessionId) ==
  /\ turn' = turn + 1 /\ calls' = calls /\ branch' # "cleared"
  /\ sessionId \in DOMAIN sessions'

\* the session of the step as processMessage finds it: the user message added
FoundAt(sessionId) ==
  AddedRev(getSessionRev(sessions, sessionId),
           Note("user", LastUserContent(sessions'[sessionId]), <<>>))

\* the turn of the step calls handleTaskEditing (lines 472 and 502-519)
EntersEditing(sessionId) ==
  \/ EditDetectedAt(FoundAt(sessionId), LastUserContent(sessions'[sessionId]))
  \/ EditAskedAt(FoundAt(sessionId), LastUserContent(sessions'[sessionId]))

\* the message asks for an edit: an edit trigger of addMessage, an edit word
\* or a task number
EditIntent(content) ==
  \/ HasEditTrigger(LowerStr(content))
  \/ \E i \in 1..Len(content) : Lower(content[i]) \in EditPhraseWords
  \/ \E i \in 1..Len(content) : content[i] \in {"1", "2", "3"}

\* C32: an edit request addMessage records is acted on or cleared within
\* the turn of the message that set it: no turn ends with the request set,
\* and a turn calls handleTaskEditing only for a message that itself asks
\* for an edit.
C32_EditRequestDoesNotLinger ==
  [][\A sessionId \in SessionIds :
       TurnedDirect(sessionId) =>
         /\ ~isTaskEditRequested(sessions'[sessionId])
         /\ EntersEditing(sessionId) => EditIntent(LastUserContent(sessions'[sessionId]))]_vars

\* C33: after a turn whose response carries a non-empty tasks list the
\* stored tasks of the session are that list, and after a turn whose
\* response carries tasks = [] the stored tasks are what they were.
C33_StoredIsLastSeen ==
  [][\A sessionId \in SessionIds :
       TurnedDirect(sessionId) =>
         IF resp'.tasks # <<>>
         THEN getStoredTasks(sessions'[sessionId]) = resp'.tasks
         ELSE getStoredTasks(sessions'[sessionId])
                = getStoredTasks(getSessionRev(sessions, sessionId))]_vars

(***************************************************************************)
(* The tool round trip in the transcript (src/index.js, lines 681-738),    *)
(* checked under Spec, where the turns of a session run one at a time.  A  *)
(* message of the model carries its tool request in tool_calls; the tool   *)
(* message that answers it is built from the same request (tool_call_id:   *)
(* toolCall.id, line 714).                                                 *)
(***************************************************************************)
\* the message at position k requests a tool and the next one is the tool's
ToolFollows(messages, k) ==
  k < Len(messages) /\ messages[k + 1].role = "tool"

MaxWindowTurns == 4

WindowSize == 6

WindowTexts ==
  { <<"please", "generate", "tasks">>, <<"change", "task", "2">>, <<"ok", "thanks">> }

WindowReplies == {AskGoal, OneStep}

\* line 483
systemMessage(allMessages) == SelectSeq(allMessages, LAMBDA m : m.role = "system")

\* line 484
recentMessages(allMessages) ==
  LastOf(SelectSeq(allMessages, LAMBDA m : m.role # "system"), WindowSize)

\* line 486
WindowOf(allMessages) ==
  IF systemMessage(allMessages) = <<>> THEN recentMessages(allMessages)
  ELSE <<systemMessage(allMessages)[1]>> \o recentMessages(allMessages)

InitWindow ==
  /\ sessions = <<>>
  /\ turn = 0
  /\ branch = "none"
  /\ calls = <<>>
  /\ raw = <<>>
  /\ resp = NoBody

\* a request: the window is taken from the transcript ss the user message
\* has entered, the turn leaves the sessions as after
Windowed(ss, sessionId, after, taken, made) ==
  /\ sessions' = after
  /\ turn' = turn + 1
  /\ branch' = taken
  /\ calls' = made
  /\ raw' = WindowOf(getMessages(ss, sessionId))
  /\ UNCHANGED resp

\* lines 610-679, 740-746
WindowQuestion(sessionId, message, content) ==
  /\ turn < MaxWindowTurns
  /\ Questioning(Entered(sessionId, message), sessionId)
  /\ Windowed(Entered(sessionId, message), sessionId,
              addMessage(Entered(sessionId, message), sessionId,
                         Message("assistant", content)),
              "questioning", <<"question">>)

\* line 657 rejects
WindowQuestionRejected(sessionId, message) ==
  /\ turn < MaxWindowTurns
  /\ Questioning(Entered(sessionId, message), sessionId)
  /\ Windowed(Entered(sessionId, message), sessionId, Entered(sessionId, message),
              "questioning", <<"question rejected">>)

\* lines 681-738; last is the text the turn ends with
WindowQuestionTool(sessionId, message, content, last, followUp) ==
  /\ turn < MaxWindowTurns
  /\ Questioning(Entered(sessionId, message), sessionId)
  /\ Windowed(Entered(sessionId, message), sessionId,
              addMessage(WithSearch(Entered(sessionId, message), sessionId, content),
                         sessionId, Message("assistant", last)),
              "questioning", <<"question", "search", followUp>>)

\* lines 749-977: three good tasks come back
WindowGenerate(sessionId, message) ==
  /\ turn < MaxWindowTurns
  /\ ~hasGeneratedTasks(Entered(sessionId, message), sessionId)
  /\ isReadyForTasks(Entered(sessionId, message), sessionId)
  /\ Windowed(Entered(sessionId, message), sessionId,
              resetQuestionCount(
                markTasksGenerated(
                  addMessage(Entered(sessionId, message), sessionId,
                             Message("assistant", Stringify(GoodTasks))),
                  sessionId),
                sessionId),
              "generation", <<"generate">>)

\* lines 979-988: the call of the generation failed
WindowGenerateRejected(sessionId, message) ==
  /\ turn < MaxWindowTurns
  /\ ~hasGeneratedTasks(Entered(sessionId, message), sessionId)
  /\ isReadyForTasks(Entered(sessionId, message), sessionId)
  /\ Windowed(Entered(sessionId, message), sessionId, Entered(sessionId, message),
              "generation", <<"generate rejected">>)

\* lines 505-589: the edit branch writes no assistant message
WindowEdit(sessionId, message) ==
  /\ turn < MaxWindowTurns
  /\ hasGeneratedTasks(Entered(sessionId, message), sessionId)
  /\ isAskingForTaskChange(Entered(sessionId, message), sessionId)
  /\ Windowed(Entered(sessionId, message), sessionId,
              resetQuestionCount(Entered(sessionId, message), sessionId),
              "editing", <<"edit">>)

\* lines 590-606
WindowContinue(sessionId, message, content) ==
  /\ turn < MaxWindowTurns
  /\ hasGeneratedTasks(Entered(sessionId, message), sessionId)
  /\ ~isAskingForTaskChange(Entered(sessionId, message), sessionId)
  /\ Windowed(Entered(sessionId, message), sessionId,
              addMessage(Entered(sessionId, message), sessionId,
                         Message("assistant", content)),
              "continuing", <<"continue">>)

\* line 597 rejects
WindowContinueRejected(sessionId, message) ==
  /\ turn < MaxWindowTurns
  /\ hasGeneratedTasks(Entered(sessionId, message), sessionId)
  /\ ~isAskingForTaskChange(Entered(sessionId, message), sessionId)
  /\ Windowed(Entered(sessionId, message), sessionId, Entered(sessionId, message),
              "continuing", <<"continue rejected">>)

NextWindow ==
  \E sessionId \in SessionIds, message \in WindowTexts :
    \/ \E content \in WindowReplies : WindowQuestion(sessionId, message, content)
    \/ WindowQuestionRejected(sessionId, message)
    \/ \E last \in WindowReplies :
         WindowQuestionTool(sessionId, message, <<>>, last, "follow-up")
    \/ WindowQuestionTool(sessionId, message, <<>>, <<ReplySearchTrouble>>,
                          "follow-up rejected")
    \/ WindowGenerate(sessionId, message)
    \/ WindowGenerateRejected(sessionId, message)
    \/ WindowEdit(sessionId, message)
    \/ \E content \in WindowReplies : WindowContinue(sessionId, message, content)
    \/ WindowContinueRejected(sessionId, message)

SpecWindow == InitWindow /\ [][NextWindow]_vars

\* the tool message at position k of the window has, before it in the
\* window, a message that carries tool_calls
Requested(window, k) == \E j \in 1..(k - 1) : window[j].tool_calls

\* C35: the window a request sends never holds a tool message without the
\* assistant message whose tool_calls requested it.
C35_WindowKeepsPairs ==
  \A k \in 1..Len(raw) : raw[k].role = "tool" => Requested(raw, k)

(***************************************************************************)
(* A turn that outlives the session it started in (checked under           *)
(* SpecRace): DELETE /chat/:sessionId is handled while the turn awaits its *)
(* call to the model, and the turn goes on when the call settles.          *)
(***************************************************************************)
\* a call made by an earlier request settles in this step
Settles == Len(calls') < Len(calls)

\* C36: when the call of a turn settles and the session of the turn is no
\* longer in the Map, the turn leaves it out of the Map: it neither creates
\* the session again nor appends to it.
C36_ClearedStaysCleared ==
  [][\A sessionId \in SessionIds :
       (Settles /\ sessionId \notin DOMAIN sessions) =>
         sessionId \notin DOMAIN sessions']_vars

(***************************************************************************)
(* Leaving the questioning phase.  SpecStall is SpecWindow with the user   *)
(* who keeps sending messages: a request is handled whenever one can be,   *)
(* up to MaxWindowTurns of them.  Readiness is isReadyForTasks             *)
(* (src/unnamed/part_006, lines 361-391) over the questionCount addMessage *)
(* keeps (lines 332-338).                                                  *)
(***************************************************************************)
SpecStall == InitWindow /\ [][NextWindow]_vars /\ WF_vars(NextWindow)

\* the last request ended in a call to the model that failed
CallFailed ==
  \E i \in 1..Len(calls) :
    calls[i] \in {"question rejected", "follow-up rejected", "generate rejected",
                  "continue rejected"}

C38_IdsInOrder ==
  \A i \in 1..Len(calls) :
    (calls[i].fn = "generate" /\ calls[i].arg.rev) =>
      /\ Len(calls[i].result) = 3
      /\ \A k \in 1..3 : calls[i].result[k].id = k

\* C39: the response of a turn that fell back leaves the assembler with the
\* three catalog tasks of the task type in tasks and with its reply: for no
\* task type does the classifier take the catalog for a questionnaire.
C39_FallbackStaysTasks ==
  \A i \in 1..Len(calls) :
    calls[i].fn = "fallback" =>
      /\ Len(calls[i].arg.tasks) = 3
      /\ ~detectQuestionsInTasks(calls[i].arg.tasks)
      /\ calls[i].result.tasks = calls[i].arg.tasks
      /\ calls[i].result.reply = calls[i].arg.reply

\* two turns fell back, one of a website session and one of a session
\* whose type the catalog does not name
C39_Witness ==
  /\ Len(calls) = 2
  /\ calls[1].fn = "fallback" /\ calls[1].arg.taskType = "website"
  /\ calls[2].fn = "fallback" /\ calls[2].arg.taskType = "finance"
  /\ calls[1].result.tasks = CatalogWebsite(FALSE)
  /\ calls[2].result.tasks = CatalogGeneral(FALSE)

====
